---- MODULE Spec2Model ----
(***************************************************************************)
(* ElderGuard sensor-to-event pipeline: the fall-detection state machine   *)
(* (src/src/tasks/fall_detection_task.cpp, latest revision, lines 672..),  *)
(* the ECG / heart-rate task (src/unnamed/part_013) and the shared cells   *)
(* of globals.cpp as read by the MQTT task.                                *)
(*                                                                         *)
(* Fixed point: accelerations are in tenths of m/s^2, angles in tenths of  *)
(* a degree, times in milliseconds (millis()).                             *)
(***************************************************************************)
EXTENDS Integers, Sequences, FiniteSets, TLC

VARIABLES
  now,                    \* millis()
  displayMutex,           \* "free" | "held" (held by some other task)
  \* ---- fall_detection_task.cpp globals
  currentState, stateStartTime, fallDetectedTime,
  peakAcceleration, minAcceleration,
  consecutiveImpacts, accelerationIntegral,
  orientation,
  \* ---- globals.cpp cells written by the fall task
  currentFallEvent, fallDetectionUpdated, fallDetectionSemaphore,
  currentAudioCommand, audioCommandUpdated, audioCommandSemaphore,
  \* ---- bound on the number of iterations of the fall task loop
  fallTicks,
  \* ---- fallDetectionTask: where the task is ("starting" before mpu.begin(),
  \*      "running" in its loop, "failed" in the sleep loop of line 752) and
  \*      how often mpu.begin() was called
  fallTask,
  \* ---- history of the current fall episode, cleared by the first tick
  \*      after it: the magnitude sampled on its last tick, the number of
  \*      samples added to accelerationIntegral, and the number of most
  \*      recent ticks in a row whose sample was counted as an impact
  episode,
  \* ---- the samples still to be fed to the fall task by a test scenario
  scenario,
  \* ---- part_013: globals and locals of ecgTask, as one record
  ecg,
  \* ---- globals.cpp cells written by the ECG task
  currentEcgData, ecgDataUpdated, ecgDataSemaphore,
  \* ---- the input to the ECG front end: the pulse train on the ADC pin and
  \*      the state of the two lead-off pins
  sig,
  \* ---- a second copy of ecgTask and of its cell, fed the same pulse train
  \*      without the injected beat
  ref,
  \* ---- part_011: position and locals of publishEcgData() in the MQTT task,
  \*      and of its loop over the raw samples (copy, i, samples; writes
  \*      counts the samples stored by the ECG task while the loop runs)
  mqtt,
  \* ---- history: the readings the cell has held, and the time of the oldest
  \*      lead-off tick the cell has not yet answered with (0, false)
  hist,
  \* ---- part_009: locals of screenTask, the publishes whose freshness it
  \*      has consumed, and how long its last read waited for a lock
  screen,
  \* ---- timing of the two sampling loops: xLastWakeTime, the number of
  \*      calls of vTaskDelayUntil, the time the last call returned and the
  \*      time the iteration it released stopped waiting
  wake,
  \* ---- the locks each of the two producers holds when its iteration ends
  holds,
  \* ---- audio_task.cpp and medication_task.cpp: the files the audio task
  \*      has played, and the medication reminders still to come
  audio

fallVars == <<currentState, stateStartTime, fallDetectedTime,
              peakAcceleration, minAcceleration,
              consecutiveImpacts, accelerationIntegral, orientation,
              currentFallEvent, fallDetectionUpdated, fallDetectionSemaphore,
              currentAudioCommand, audioCommandUpdated, audioCommandSemaphore,
              fallTicks, fallTask, episode, scenario>>

ecgVars == <<ecg, currentEcgData, ecgDataUpdated, ecgDataSemaphore, sig,
             ref, mqtt, hist, screen>>

vars == <<now, displayMutex, fallVars, ecgVars, wake, holds, audio>>

(***************************************************************************)
(* Bounds of the model.                                                    *)
(***************************************************************************)
MaxFallTicks == 7

\* elapsed time between two iterations of the fall loop: the nominal 20 ms
\* period, a short catch-up period after a late iteration, a late iteration,
\* and a long one that spans the cooldown
FallDeltas == {5, 20, 100, 39980}

\* acceleration magnitudes fed to the detector (2.0, 20.0, 70.0 m/s^2)
AccSamples == {20, 200, 700}

\* raw pitch angles computed from the sample (0 and 30 degrees)
PitchSamples == {0}

\* number of pulses of the input pulse train
MaxBeats == 3

\* distance between two pulses, in samples: 200 ms (too close for a
\* plausible RR interval), 800 ms (75 BPM), 8.4 s (longer than the
\* staleness window)
GapChoices == {10, 40, 420}

\* raw ADC readings (12 bit): the resting level and the R peak
RawLevels == [rest |-> 2000, pulse |-> 4000]

\* lead-off episodes: how many, on which pin (1 = LO+, 2 = LO-), how many
\* samples long, and at which distance from the next pulse they may begin
MaxLeadOffEpisodes == 1
LeadOffPins == {1, 2}
LeadOffLengths == {1, 60}
LeadOffAt == {5, 30}

\* distance, in samples before the next regular pulse, at which the extra
\* beat is injected: it is sampled 200 ms and 260 ms after the previous
\* regular pulse
InjectAt == {30, 27}

\* the sample fed on the tick after the impact sample of scenario A
\* (2.0, 9.8 and 20.0 m/s^2)
ScenarioLast == {20, 98, 200}

\* impact peaks of the two falls of the re-arm scenario (20, 30, 70 m/s^2)
RearmPeaks == {200, 300, 700}

\* length in ms of the ramp run (the ring wraps at 5000 ms) and of the run in
\* which the MQTT task copies raw samples (the first publish is at 1000 ms)
RingLength == 5300
CopyLength == 1200

\* number of samples the ECG task may store while one copy is under way
MaxWritesDuringCopy == 1

\* length of the timing runs in ms
TimingLength == 1300

\* magnitudes fed to the fall loop in the timing runs: a freefall of 80 ms
\* and a 70 m/s^2 impact; the device rests afterwards
TimingScript == <<20, 20, 20, 20, 700>>

\* number of loop iterations followed after the calibration
MaxCalibratedTicks == 4

\* pitch of the resting device while it is calibrated (0 and 10 degrees)
CalibrationPitches == {0, 100}

\* raw pitch of the tilt scenario (0 and 90 degrees)
TiltPitches == {0, 900}

\* distances between pulses while electrodes come off: 800 ms and 2.4 s
LeadGaps == {40, 120}
\* medication reminders that fall due
MaxReminders == 1
\* accelerations around the two thresholds, in tenths of m/s^2
MaxBoundaryTicks == 5
BoundaryDeltas == {5, 100}
BoundarySamples == {59, 60, 160, 161}
\* the constant input: levels below and above the initial baseline
DriftLevels == {1900, 2100, 3000}
DriftLength == 3000
\* gaps at the limits of the plausible RR range
RangeGaps == {15, 75}
\* smoothing: the starting rates and the repeated interval (200, 100, 75, 40 BPM)
SmoothRates == 1..220
SmoothIntervals == {300, 600, 800, 1500}
SmoothLength == 12000
\* the pulse train of changing rate
RateGaps == {20, 25}
RateLength == 5500
\* samples for which a pulse stays up: a narrow and a wide complex
PulseWidths == {1, 8}

\* length of Scenario B in ms
ScenarioBLength == 10000

(***************************************************************************)
(* FallConfig (fall_detection_task.cpp:694-711)                            *)
(***************************************************************************)
freefallThreshold == 60
impactThreshold == 160
orientationChangeThreshold == 150
requireOrientationChange == FALSE
requireConsistentAcceleration == TRUE
minFreefallDuration == 70
maxFreefallWindow == 450
fallResetTime == 40000
requiredConsecutiveImpacts == 1

AUDIO_FALL_DETECTED == 2

\* config.h:46 and fall_detection_task.cpp:769: the period of the fall loop
FALL_DETECTION_SAMPLE_RATE_HZ == 50

FallPeriod == 1000 \div FALL_DETECTION_SAMPLE_RATE_HZ

\* C integer division truncates toward zero
CDiv(a, b) == IF a >= 0 THEN a \div b ELSE -((-a) \div b)

Abs(x) == IF x < 0 THEN -x ELSE x

\* Arduino map(long, long, long, long, long): the float arguments are
\* truncated to long, the result is not constrained to the output range
map(x, in_min, in_max, out_min, out_max) ==
  CDiv((x - in_min) * (out_max - out_min), in_max - in_min) + out_min

\* fallSeverity as computed at fall_detection_task.cpp:1029; peak is in tenths
FallSeverity(peak) == map(CDiv(peak, 10), CDiv(impactThreshold, 10), 40, 1, 10)

\* updateOrientation: low-pass filter with ALPHA = 0.8
Filter(old, new) == CDiv(8 * old + 2 * new, 10)

\* variant: the filtered angles also become the new baseline
updateOrientationRebase(o, newPitch, newRoll, newYaw) ==
  [o EXCEPT !.pitch = Filter(o.pitch, newPitch),
            !.roll = Filter(o.roll, newRoll),
            !.yaw = Filter(o.yaw, newYaw),
            !.baselinePitch = Filter(o.pitch, newPitch),
            !.baselineRoll = Filter(o.roll, newRoll),
            !.baselineYaw = Filter(o.yaw, newYaw)]

updateOrientation(o, newPitch, newRoll, newYaw) ==
  [o EXCEPT !.pitch = Filter(o.pitch, newPitch),
            !.roll = Filter(o.roll, newRoll),
            !.yaw = Filter(o.yaw, newYaw)]

\* calibrateAccelerometer (fall_detection_task.cpp:789-822): the baseline is
\* the mean of numSamples readings, 20 ms apart, of the resting device
numSamples == 100

calibrateAccelerometer(o, pitch, roll, yaw) ==
  [o EXCEPT !.baselinePitch = CDiv(numSamples * pitch, numSamples),
            !.baselineRoll = CDiv(numSamples * roll, numSamples),
            !.baselineYaw = CDiv(numSamples * yaw, numSamples)]

Baseline(o) == <<o.baselinePitch, o.baselineRoll, o.baselineYaw>>

\* the longest wait for displayMutex, pdMS_TO_TICKS(100), and the delay of
\* the lead-off path of ecgTask (part_013:135)
TakeTimeout == 100
LeadOffDelay == 10

\* xSemaphoreTake(displayMutex, 100 ms) by a producer: succeeds when no other
\* task holds the mutex; the producer gives it back before the tick ends
MutexFree == displayMutex = "free"

\* variant: the producers wait for the mutex without a timeout
TakeCompletesWhenFree(free) == free

\* every xSemaphoreTake(displayMutex, pdMS_TO_TICKS(100)) of the producers
\* (fall_detection_task.cpp:952, 980, 1021; part_013:119, 272) returns, with
\* the mutex or, after the timeout, without it
TakeCompletes(free) == free \/ ~free

\* an iteration of the fall loop can run: the task is not parked in the
\* sleep loop of line 752 and is not stuck waiting for the mutex
FallCanRun == fallTask.state # "failed" /\ TakeCompletes(MutexFree)

\* an iteration of the ECG loop can run: it is not stuck waiting for the mutex
EcgCanRun == TakeCompletes(MutexFree)


(***************************************************************************)
(* The locks a producer holds: xSemaphoreTake adds the lock when it is     *)
(* obtained within the timeout, xSemaphoreGive removes it.  Below, the     *)
(* takes and gives of each path through the producers, in program order.   *)
(***************************************************************************)
Take(held, lock, obtained) == IF obtained THEN held \cup {lock} ELSE held

\* variant: the lock is not given back
GiveForgotten(held, lock) == held

Give(held, lock) == held \ {lock}

\* part_013:115-133 and 263-299: the publish of the ECG task
ecgPublishLocks(held, due, free) ==
  IF due
  THEN LET h1 == Take(held, "displayMutex", free)
       IN IF "displayMutex" \in h1 THEN Give(h1, "displayMutex") ELSE h1
  ELSE held

\* fall_detection_task.cpp:603-669: reportFallEvent of the revision that
\* also prepares the Telegram alert; the later revision (lines 1021-1041)
\* takes and gives displayMutex only
reportFallEventLocks(held, free, telegramFree, gpsFree) ==
  LET h1 == Take(held, "displayMutex", free)
  IN IF "displayMutex" \in h1
     THEN LET h2 == Give(h1, "displayMutex")
              h3 == Take(h2, "telegramAlertSemaphore", telegramFree)
          IN IF "telegramAlertSemaphore" \in h3
             THEN LET h4 == Take(h3, "gpsDataSemaphore", gpsFree)
                      h5 == IF "gpsDataSemaphore" \in h4
                            THEN Give(h4, "gpsDataSemaphore") ELSE h4
                  IN Give(h5, "telegramAlertSemaphore")
             ELSE h3
     ELSE h1

\* fall_detection_task.cpp:952-961: the audio alert of a confirmed fall
audioAlertLocks(held, free) ==
  LET h1 == Take(held, "displayMutex", free)
  IN IF "displayMutex" \in h1 THEN Give(h1, "displayMutex") ELSE h1

\* fall_detection_task.cpp:980-987: the reset after the cooldown
fallResetLocks(held, free) ==
  LET h1 == Take(held, "displayMutex", free)
  IN IF "displayMutex" \in h1 THEN Give(h1, "displayMutex") ELSE h1

(***************************************************************************)
(* ECG task (src/unnamed/part_013)                                         *)
(***************************************************************************)
ECG_BUFFER_SIZE == 250
RR_BUFFER_SIZE == 8
AMPLITUDE_BUFFER_SIZE == 5
PEAK_DETECTION_THRESHOLD == 2700
RR_MIN_LIMIT == 300
RR_MAX_LIMIT == 1500
QRS_MIN_WIDTH == 10
QRS_MAX_WIDTH == 150
MQTT_PUBLISH_INTERVAL_MS == 1000
SAMPLE_INTERVAL_MS == 20
\* Scenario B: one pulse every 800 ms
ScenarioBPeriod == 40 * SAMPLE_INTERVAL_MS
StalenessWindow == 8000
ThresholdRelaxTime == 1500
StartupTime == 3000

\* state of ecgTask after its initialisation (part_013:31-88); the buffers are
\* zero: ecgBuffer is a global, rrIntervals is cleared at lines 72-74
EcgInit ==
  [ecgBuffer |-> [i \in 0..(ECG_BUFFER_SIZE - 1) |-> 0],
   bufferIndex |-> 0,
   heartRate |-> 0,
   lastPeakTime |-> 0,
   adaptiveThreshold |-> PEAK_DETECTION_THRESHOLD,
   rrIntervals |-> [i \in 0..(RR_BUFFER_SIZE - 1) |-> 0],
   rrIndex |-> 0,
   leadsConnected |-> FALSE,
   lastHeartRateChangeTime |-> 0,
   lastDataUpdate |-> 0,
   inQRS |-> FALSE,
   qrsStartTime |-> 0,
   qrsPeak |-> 0,
   baseline |-> 2048,
   recentAmplitudes |-> [i \in 0..(AMPLITUDE_BUFFER_SIZE - 1) |-> 0],
   amplitudeIndex |-> 0,
   averageAmplitude |-> 500]

\* variant: only the LO+ pin is looked at
LeadsConnectedPosOnly(loPos, loNeg) == ~loPos

\* line 104: leads are connected unless one of the lead-off pins reads HIGH
LeadsConnected(loPos, loNeg) == ~(loPos \/ loNeg)

\* variant: the write index is not wrapped
StoreSampleNoWrap(e, rawEcgValue) ==
  [e EXCEPT !.ecgBuffer[e.bufferIndex] = rawEcgValue,
            !.bufferIndex = e.bufferIndex + 1]

\* lines 96-101: store the sample, advance the write index
StoreSample(e, rawEcgValue) ==
  [e EXCEPT !.ecgBuffer[e.bufferIndex] = rawEcgValue,
            !.bufferIndex = (e.bufferIndex + 1) % ECG_BUFFER_SIZE]

\* variant: the index of the slot that is written next is not stepped over
ReadIndexFromWriteSlot(bufferIndex, i) ==
  (bufferIndex - i + ECG_BUFFER_SIZE) % ECG_BUFFER_SIZE

\* lines 139-145: 5-point moving average over the most recent samples
ReadIndex(bufferIndex, i) == (bufferIndex - i - 1 + ECG_BUFFER_SIZE) % ECG_BUFFER_SIZE

FilteredValue(e) ==
  CDiv(e.ecgBuffer[ReadIndex(e.bufferIndex, 0)] + e.ecgBuffer[ReadIndex(e.bufferIndex, 1)]
       + e.ecgBuffer[ReadIndex(e.bufferIndex, 2)] + e.ecgBuffer[ReadIndex(e.bufferIndex, 3)]
       + e.ecgBuffer[ReadIndex(e.bufferIndex, 4)], 5)

\* isValidEcgSignal of the earlier revision (part_012:638-652): spread of the
\* last 5 raw samples, flatline below FlatlineMin, noise above NoiseMax
FlatlineMin == 5
NoiseMax == 3000

Max(S) == CHOOSE x \in S : \A y \in S : y <= x
Min(S) == CHOOSE x \in S : \A y \in S : x <= y

Spread(e) ==
  LET last == {e.ecgBuffer[ReadIndex(e.bufferIndex, i)] : i \in 0..4}
  IN Max(last) - Min(last)

\* variant: the lower limit is not enforced
RRValidNoLowerLimit(rrInterval) == rrInterval <= RR_MAX_LIMIT

\* line 206: physiological plausibility of an RR interval
RRValid(rrInterval) == rrInterval >= RR_MIN_LIMIT /\ rrInterval <= RR_MAX_LIMIT

\* variant: no upper limit on the width
QRSValidNoMaxWidth(currentTime, qrsDuration) ==
  \/ currentTime < StartupTime
  \/ qrsDuration >= QRS_MIN_WIDTH

\* line 177: the width test of a complex; it is not applied before 3000 ms
QRSValid(currentTime, qrsDuration) ==
  \/ currentTime < StartupTime
  \/ (qrsDuration >= QRS_MIN_WIDTH /\ qrsDuration <= QRS_MAX_WIDTH)

\* lines 212-224: rate from the non-zero entries of the RR ring
RECURSIVE SumFrom(_, _, _)
SumFrom(f, i, n) == IF i >= n THEN 0 ELSE f[i] + SumFrom(f, i + 1, n)

RRSum(rr) == SumFrom(rr, 0, RR_BUFFER_SIZE)
RRCount(rr) == Cardinality({i \in 0..(RR_BUFFER_SIZE - 1) : rr[i] > 0})
\* variant: the sum is averaged over all slots of the ring, filled or not
NewHeartRateOverSlots(rr) == 60000 \div (RRSum(rr) \div RR_BUFFER_SIZE)

NewHeartRate(rr) == 60000 \div (RRSum(rr) \div RRCount(rr))

\* variant: the weighted sum is rounded to the nearest integer
SmoothRounded(heartRate, newHeartRate) ==
  IF heartRate = 0 THEN newHeartRate ELSE (4 * heartRate + newHeartRate + 2) \div 5

\* lines 227-232: (int)(0.8 * heartRate + 0.2 * newHeartRate); for rates in
\* 0..300 the double expression truncates to (4 * old + new) div 5
Smooth(heartRate, newHeartRate) ==
  IF heartRate = 0 THEN newHeartRate ELSE (4 * heartRate + newHeartRate) \div 5

\* variant: the ring index is not advanced, every interval lands in one slot
UpdateRRSameSlot(e, currentTime) ==
  IF e.lastPeakTime > 0 /\ RRValid(currentTime - e.lastPeakTime)
  THEN LET rr == [e.rrIntervals EXCEPT ![e.rrIndex] = currentTime - e.lastPeakTime]
       IN [e EXCEPT !.rrIntervals = rr,
                    !.heartRate = Smooth(e.heartRate, NewHeartRate(rr)),
                    !.lastHeartRateChangeTime = currentTime]
  ELSE e

\* lines 201-247: the RR interval of a confirmed beat
UpdateRR(e, currentTime) ==
  IF e.lastPeakTime > 0 /\ RRValid(currentTime - e.lastPeakTime)
  THEN LET rr == [e.rrIntervals EXCEPT ![e.rrIndex] = currentTime - e.lastPeakTime]
       IN [e EXCEPT !.rrIntervals = rr,
                    !.rrIndex = (e.rrIndex + 1) % RR_BUFFER_SIZE,
                    !.heartRate = Smooth(e.heartRate, NewHeartRate(rr)),
                    !.lastHeartRateChangeTime = currentTime]
  ELSE e

\* lines 180-199: amplitude tracking of a confirmed beat
UpdateAmplitude(e) ==
  LET amps == [e.recentAmplitudes EXCEPT ![e.amplitudeIndex] = e.qrsPeak - e.baseline]
      pos == {i \in 0..(AMPLITUDE_BUFFER_SIZE - 1) : amps[i] > 0}
      sum == SumFrom([i \in 0..(AMPLITUDE_BUFFER_SIZE - 1) |->
                        IF amps[i] > 0 THEN amps[i] ELSE 0], 0, AMPLITUDE_BUFFER_SIZE)
      avg == IF pos # {} THEN sum \div Cardinality(pos) ELSE e.averageAmplitude
  IN [e EXCEPT !.recentAmplitudes = amps,
               !.amplitudeIndex = (e.amplitudeIndex + 1) % AMPLITUDE_BUFFER_SIZE,
               !.averageAmplitude = avg,
               !.adaptiveThreshold = IF pos # {} THEN e.baseline + CDiv(avg, 2)
                                     ELSE e.adaptiveThreshold]

\* lines 178-251: a confirmed beat
ConfirmBeat(e, currentTime) ==
  [UpdateRR(UpdateAmplitude(e), currentTime) EXCEPT !.lastPeakTime = currentTime]

\* lines 159-254: the InComplex / OutOfComplex machine
DetectQRS(e, filteredValue, currentTime) ==
  LET deviation == filteredValue - e.baseline
      level == e.adaptiveThreshold - e.baseline
  IN
  IF ~e.inQRS /\ deviation > level
  THEN [e EXCEPT !.inQRS = TRUE, !.qrsStartTime = currentTime, !.qrsPeak = filteredValue]
  ELSE IF e.inQRS
  THEN LET e1 == [e EXCEPT !.qrsPeak = IF filteredValue > e.qrsPeak
                                       THEN filteredValue ELSE e.qrsPeak]
       IN IF deviation < CDiv(level, 2) \/ currentTime - e.qrsStartTime > QRS_MAX_WIDTH
          THEN LET e2 == [e1 EXCEPT !.inQRS = FALSE]
               IN IF QRSValid(currentTime, currentTime - e.qrsStartTime)
                  THEN ConfirmBeat(e2, currentTime)
                  ELSE e2
          ELSE e1
  ELSE e

\* variant: the age is taken from the last publish, not the last interval
StaleSincePublish(e, currentTime) ==
  e.heartRate > 0 /\ currentTime - e.lastDataUpdate > StalenessWindow

\* line 257: no accepted interval for more than 8 s
Stale(e, currentTime) ==
  e.heartRate > 0 /\ currentTime - e.lastHeartRateChangeTime > StalenessWindow

\* lines 96-260 of one iteration: everything but the publish
EcgProcess(e, rawEcgValue, loPos, loNeg, currentTime) ==
  LET e1 == [StoreSample(e, rawEcgValue) EXCEPT
               !.leadsConnected = LeadsConnected(loPos, loNeg)]
  IN
  IF ~e1.leadsConnected
  THEN [e1 EXCEPT !.heartRate = 0]
  ELSE LET filteredValue == FilteredValue(e1)
           e2 == [e1 EXCEPT !.baseline = CDiv(e1.baseline * 99 + filteredValue, 100)]
           e3 == IF currentTime - e2.lastPeakTime > ThresholdRelaxTime
                 THEN [e2 EXCEPT !.adaptiveThreshold =
                                    e2.baseline + CDiv(e2.averageAmplitude, 2)]
                 ELSE e2
           e4 == DetectQRS(e3, filteredValue, currentTime)
       IN IF Stale(e4, currentTime) THEN [e4 EXCEPT !.heartRate = 0] ELSE e4

\* lines 115 and 263: a publish is due
PublishDue(e, currentTime) == currentTime - e.lastDataUpdate >= MQTT_PUBLISH_INTERVAL_MS

\* variant: with the leads connected the reading is always marked valid
EcgReadingValidWhenConnected(e, rawEcgValue, currentTime) ==
  IF ~e.leadsConnected
  THEN [rawValue |-> rawEcgValue, heartRate |-> 0, validSignal |-> FALSE,
        timestamp |-> currentTime]
  ELSE [rawValue |-> rawEcgValue, heartRate |-> e.heartRate,
        validSignal |-> TRUE, timestamp |-> currentTime]

\* lines 121-124 and 274-277: the reading written to the cell
EcgReading(e, rawEcgValue, currentTime) ==
  IF ~e.leadsConnected
  THEN [rawValue |-> rawEcgValue, heartRate |-> 0, validSignal |-> FALSE,
        timestamp |-> currentTime]
  ELSE [rawValue |-> rawEcgValue, heartRate |-> e.heartRate,
        validSignal |-> (e.heartRate > 0), timestamp |-> currentTime]

(***************************************************************************)
(* The input: a train of at most MaxBeats one-sample pulses over the       *)
(* resting level, sampled every SAMPLE_INTERVAL_MS; sig.wait counts the    *)
(* samples to the next pulse, sig.loLeft the samples for which the         *)
(* lead-off pin sig.lo stays HIGH.  The first pulse comes after 1.6 s,     *)
(* when the detection threshold has been relaxed (part_013:154).           *)
(***************************************************************************)
SigInit ==
  {[wait |-> 2 * 40, left |-> MaxBeats, lo |-> 0, loLeft |-> 0,
    episodes |-> MaxLeadOffEpisodes, inj |-> "none", high |-> 0]}

\* the sample read by adc1_get_raw (part_013:97): with and without the
\* injected beat
SigRaw ==
  IF sig.wait = 0 \/ sig.inj = "now" \/ sig.high > 0
  THEN RawLevels.pulse ELSE RawLevels.rest

RefRaw == IF sig.wait = 0 THEN RawLevels.pulse ELSE RawLevels.rest

SigNext(gap) ==
  [sig EXCEPT !.wait = IF sig.wait = 0 THEN gap - 1 ELSE @ - 1,
              !.left = IF sig.wait = 0 THEN @ - 1 ELSE @,
              !.loLeft = IF @ > 0 THEN @ - 1 ELSE 0,
              !.inj = IF @ = "now" THEN "done" ELSE @]

\* globals.cpp: the zero-initialised EcgData cell
EcgDataInit ==
  [rawValue |-> 0, heartRate |-> 0, validSignal |-> FALSE, timestamp |-> 0]

\* the (heartRate, validSignal) pair of a reading
Pair(d) == <<d.heartRate, d.validSignal>>

Init ==
  /\ now = 0
  /\ displayMutex = "free"
  /\ currentState = "MONITORING"
  /\ stateStartTime = 0
  /\ fallDetectedTime = 0
  /\ peakAcceleration = 0
  /\ minAcceleration = 98
  /\ consecutiveImpacts = 0
  /\ accelerationIntegral = 0
  /\ orientation = [pitch |-> 0, roll |-> 0, yaw |-> 0,
                    baselinePitch |-> 0, baselineRoll |-> 0, baselineYaw |-> 0]
  /\ currentFallEvent = [fallDetected |-> FALSE, acceleration |-> 0,
                         orientation |-> <<0, 0, 0>>, timestamp |-> 0,
                         fallSeverity |-> 0]
  /\ fallDetectionUpdated = FALSE
  /\ fallDetectionSemaphore = 0
  /\ currentAudioCommand = [fileNumber |-> 0, repeatCount |-> 0, volume |-> 0]
  /\ audioCommandUpdated = FALSE
  /\ audioCommandSemaphore = 0
  /\ fallTicks = 0
  /\ fallTask = [state |-> "starting", begins |-> 0, sleeps |-> 0]
  /\ episode = [acc |-> 0, samples |-> 0, run |-> 0]
  /\ scenario = [name |-> "none", rest |-> <<>>, first |-> 0, peak |-> 0]
  /\ ecg = EcgInit
  /\ currentEcgData = EcgDataInit
  /\ ecgDataUpdated = FALSE
  /\ ecgDataSemaphore = 0
  /\ sig \in SigInit
  /\ ref = [ecg |-> EcgInit, data |-> EcgDataInit]
  /\ mqtt = [pc |-> "idle", heartRate |-> 0, validSignal |-> FALSE,
             sent |-> Pair(EcgDataInit),
             copy |-> "idle", i |-> 0, samples |-> <<>>, writes |-> 0]
  /\ hist = [published |-> {Pair(EcgDataInit)}, leadOffSince |-> -1,
             rr |-> <<>>, fresh |-> <<>>, wasReset |-> FALSE]
  /\ screen = [currentScreenState |-> "MAIN", currentHeartRate |-> 0,
               seenFall |-> <<-1, FALSE>>, seenEcg |-> -1, again |-> FALSE,
               waited |-> 0]
  /\ wake = [t \in {"ecg", "fall"} |->
               [xLastWakeTime |-> 0, calls |-> 0, released |-> 0, busyUntil |-> 0]]
  /\ holds = [t \in {"ecg", "fall"} |-> {}]
  /\ audio = [played |-> <<>>, reminders |-> MaxReminders]

(***************************************************************************)
(* Another task (screen, audio, medication, GPS, time) takes and gives     *)
(* displayMutex.                                                           *)
(***************************************************************************)
OtherTake ==
  /\ displayMutex = "free"
  /\ displayMutex' = "held"
  /\ UNCHANGED <<now, fallVars, ecgVars>>
  /\ UNCHANGED <<wake, audio, holds>>

OtherGive ==
  /\ displayMutex = "held"
  /\ displayMutex' = "free"
  /\ UNCHANGED <<now, fallVars, ecgVars>>
  /\ UNCHANGED <<wake, audio, holds>>

(***************************************************************************)
(* reportFallEvent (fall_detection_task.cpp:995-1042): the cell as it is   *)
(* after the call, given whether the mutex was obtained.                   *)
(***************************************************************************)
\* variant: the cell keeps the largest acceleration it has ever held
reportFallEventKeepMax(got, peak, o, t) ==
  LET worst == IF currentFallEvent.acceleration > peak
               THEN currentFallEvent.acceleration ELSE peak
  IN IF got
     THEN [fallDetected |-> TRUE, acceleration |-> worst,
           orientation |-> <<o.pitch, o.roll, o.yaw>>, timestamp |-> t,
           fallSeverity |-> FallSeverity(worst)]
     ELSE currentFallEvent

reportFallEvent(got, peak, o, t) ==
  IF got
  THEN [fallDetected |-> TRUE, acceleration |-> peak,
        orientation |-> <<o.pitch, o.roll, o.yaw>>, timestamp |-> t,
        fallSeverity |-> FallSeverity(peak)]
  ELSE currentFallEvent

\* variant: the spread must exceed 11.0
accelerationPatternValidWiderSpread(integral, elapsed, peak, min) ==
  integral > 30 * (elapsed + 1) /\ peak - min > 110

\* accelerationPatternValid (fall_detection_task.cpp:930-938), in tenths:
\* integral / (elapsed + 1) > 3.0 and peak - min > 10.0
accelerationPatternValid(integral, elapsed, peak, min) ==
  IF requireConsistentAcceleration
  THEN integral > 30 * (elapsed + 1) /\ peak - min > 100
  ELSE TRUE

significantOrientationChange(o) ==
  \/ Abs(o.pitch - o.baselinePitch) > orientationChangeThreshold
  \/ Abs(o.roll - o.baselineRoll) > orientationChangeThreshold

\* variant: a strong sample met in MONITORING confirms at once
MonitoringNextDirect(accMagnitude) ==
  IF accMagnitude < freefallThreshold THEN "POTENTIAL_FALL"
  ELSE IF accMagnitude > impactThreshold THEN "FALL_CONFIRMED"
  ELSE "MONITORING"

\* MONITORING (lines 872-886): the only exit is the low-acceleration test
MonitoringNext(accMagnitude) ==
  IF accMagnitude < freefallThreshold THEN "POTENTIAL_FALL" ELSE "MONITORING"

\* variant: a strong sample counts from the first tick of the freefall
ImpactCountsEarly(elapsed, accMagnitude) == accMagnitude > impactThreshold

\* lines 893-895: a sample is counted as an impact when the freefall has
\* lasted minFreefallDuration and the magnitude is above impactThreshold
ImpactCounts(elapsed, accMagnitude) ==
  elapsed >= minFreefallDuration /\ accMagnitude > impactThreshold

\* variant: the window is always measured from the entry of POTENTIAL_FALL
WindowStartAtEntry(toImpact, currentTime, start) == start

\* lines 904-906 and 911: stateStartTime as the window test reads it, after
\* the impact branch has run
WindowStart(toImpact, currentTime, start) == IF toImpact THEN currentTime ELSE start

\* variant: the orientation criterion is applied whatever the configuration
FallDetectedTilted(valid, o) == valid /\ significantOrientationChange(o)

\* lines 941-942
FallDetected(valid, o) ==
  valid /\ (~requireOrientationChange \/ significantOrientationChange(o))

\* FALL_CONFIRMED (line 972): the cooldown test
CooldownExpired(currentTime, detectedTime) ==
  currentTime - detectedTime > fallResetTime

(***************************************************************************)
(* One iteration of the fall task loop (fall_detection_task.cpp:773-786):  *)
(* updateOrientation, then processFallDetection (848-993).                 *)
(***************************************************************************)
FallTick(dt, accMagnitude, newPitch) ==
  LET currentTime == now + dt
      o == updateOrientation(orientation, newPitch, 0, 0)
      \* lines 858-864: peak and minimum are tracked in every state
      peak1 == IF accMagnitude > peakAcceleration THEN accMagnitude ELSE peakAcceleration
      min1 == IF accMagnitude < minAcceleration THEN accMagnitude ELSE minAcceleration
      got == MutexFree
  IN
  /\ FallCanRun
  /\ fallTask' = [state |-> "running", begins |-> 1, sleeps |-> 0]
  /\ fallTicks' = fallTicks + 1
  /\ UNCHANGED ecgVars
  /\ now' = currentTime
  /\ orientation' = o
  /\ CASE currentState = "MONITORING" ->
            /\ consecutiveImpacts' = 0
            /\ accelerationIntegral' = 0
            /\ currentState' = MonitoringNext(accMagnitude)
            /\ episode' = [acc |-> IF accMagnitude < freefallThreshold
                                   THEN accMagnitude ELSE 0,
                           samples |-> 0, run |-> 0]
            /\ IF accMagnitude < freefallThreshold
               THEN /\ stateStartTime' = currentTime
                    /\ peakAcceleration' = 0
                    /\ minAcceleration' = accMagnitude
               ELSE /\ stateStartTime' = stateStartTime
                    /\ peakAcceleration' = peak1
                    /\ minAcceleration' = min1
            /\ UNCHANGED <<fallDetectedTime, currentFallEvent, fallDetectionUpdated,
                           fallDetectionSemaphore, currentAudioCommand,
                           audioCommandUpdated, audioCommandSemaphore>>
       [] currentState = "POTENTIAL_FALL" ->
            LET integral == accelerationIntegral + accMagnitude
                impact == ImpactCounts(currentTime - stateStartTime, accMagnitude)
                count == IF impact THEN consecutiveImpacts + 1 ELSE consecutiveImpacts
                toImpact == impact /\ count >= requiredConsecutiveImpacts
                start1 == WindowStart(toImpact, currentTime, stateStartTime)
                timeout == currentTime - start1 > maxFreefallWindow
            IN
            /\ accelerationIntegral' = integral
            /\ episode' = IF timeout THEN [acc |-> accMagnitude, samples |-> 0, run |-> 0]
                           ELSE [acc |-> accMagnitude,
                                 samples |-> episode.samples + 1,
                                 run |-> IF impact THEN episode.run + 1 ELSE 0]
            /\ stateStartTime' = start1
            /\ currentState' = IF timeout THEN "MONITORING"
                               ELSE IF toImpact THEN "IMPACT_DETECTED"
                               ELSE currentState
            /\ consecutiveImpacts' = IF timeout THEN 0 ELSE count
            /\ peakAcceleration' = peak1
            /\ minAcceleration' = min1
            /\ UNCHANGED <<fallDetectedTime, currentFallEvent, fallDetectionUpdated,
                           fallDetectionSemaphore, currentAudioCommand,
                           audioCommandUpdated, audioCommandSemaphore>>
       [] currentState = "IMPACT_DETECTED" ->
            LET valid == accelerationPatternValid(accelerationIntegral,
                                                  currentTime - stateStartTime,
                                                  peak1, min1)
                fallDetected == FallDetected(valid, o)
            IN
            /\ peakAcceleration' = peak1
            /\ minAcceleration' = min1
            /\ episode' = [acc |-> 0, samples |-> 0, run |-> 0]
            /\ IF fallDetected
               THEN /\ currentState' = "FALL_CONFIRMED"
                    /\ fallDetectedTime' = currentTime
                    \* reportFallEvent
                    /\ currentFallEvent' = reportFallEvent(got, peak1, o, currentTime)
                    /\ fallDetectionUpdated' = (got \/ fallDetectionUpdated)
                    /\ fallDetectionSemaphore' = IF got THEN 1 ELSE fallDetectionSemaphore
                    \* audio alert (lines 951-961)
                    /\ currentAudioCommand' =
                         IF got THEN [fileNumber |-> AUDIO_FALL_DETECTED,
                                      repeatCount |-> 3, volume |-> 30]
                         ELSE currentAudioCommand
                    /\ audioCommandUpdated' = (got \/ audioCommandUpdated)
                    /\ audioCommandSemaphore' = IF got THEN 1 ELSE audioCommandSemaphore
               ELSE /\ currentState' = "MONITORING"
                    /\ UNCHANGED <<fallDetectedTime, currentFallEvent,
                                   fallDetectionUpdated, fallDetectionSemaphore,
                                   currentAudioCommand, audioCommandUpdated,
                                   audioCommandSemaphore>>
            /\ UNCHANGED <<stateStartTime, consecutiveImpacts, accelerationIntegral>>
       [] currentState = "FALL_CONFIRMED" ->
            IF CooldownExpired(currentTime, fallDetectedTime)
            THEN /\ currentState' = "MONITORING"
                 /\ episode' = episode
                 /\ peakAcceleration' = 0
                 /\ minAcceleration' = 98
                 /\ consecutiveImpacts' = 0
                 /\ accelerationIntegral' = 0
                 /\ currentFallEvent' =
                      IF got THEN [currentFallEvent EXCEPT !.fallDetected = FALSE]
                      ELSE currentFallEvent
                 /\ fallDetectionUpdated' = (got \/ fallDetectionUpdated)
                 /\ fallDetectionSemaphore' = IF got THEN 1 ELSE fallDetectionSemaphore
                 /\ UNCHANGED <<stateStartTime, fallDetectedTime, currentAudioCommand,
                                audioCommandUpdated, audioCommandSemaphore>>
            ELSE /\ peakAcceleration' = peak1
                 /\ minAcceleration' = min1
                 /\ episode' = episode
                 /\ UNCHANGED <<currentState, stateStartTime, fallDetectedTime,
                                consecutiveImpacts, accelerationIntegral,
                                currentFallEvent, fallDetectionUpdated,
                                fallDetectionSemaphore, currentAudioCommand,
                                audioCommandUpdated, audioCommandSemaphore>>
  \* the locks of the tick: reportFallEvent and the audio alert on a
  \* confirmed fall, the reset after the cooldown
  /\ \E telegramFree, gpsFree \in
          (IF currentState = "IMPACT_DETECTED" THEN BOOLEAN ELSE {TRUE}) :
       holds' = [holds EXCEPT !.fall =
                   IF currentState = "IMPACT_DETECTED" /\ currentState' = "FALL_CONFIRMED"
                   THEN audioAlertLocks(
                          reportFallEventLocks(holds.fall, got, telegramFree, gpsFree),
                          got)
                   ELSE IF currentState = "FALL_CONFIRMED" /\ currentState' = "MONITORING"
                   THEN fallResetLocks(holds.fall, got)
                   ELSE holds.fall]
  /\ displayMutex' = IF "displayMutex" \in holds'.fall THEN "taken" ELSE displayMutex

FallStep ==
  /\ fallTicks < MaxFallTicks
  /\ \E dt \in FallDeltas, a \in AccSamples, p \in PitchSamples : FallTick(dt, a, p)
  /\ UNCHANGED scenario
  /\ UNCHANGED <<wake, audio>>


(***************************************************************************)
(* One iteration of the ECG task loop (part_013:91-300): the task's state  *)
(* and the cell after the iteration, given whether displayMutex is free.   *)
(* lastDataUpdate is written before the mutex is requested (lines 116,     *)
(* 264), so a refused publish is next attempted one interval later.        *)
(***************************************************************************)
EcgLoop(e, cell, rawEcgValue, loPos, loNeg, currentTime, free) ==
  LET e1 == EcgProcess(e, rawEcgValue, loPos, loNeg, currentTime)
      due == PublishDue(e1, currentTime)
      got == due /\ free
  IN [ecg |-> [e1 EXCEPT !.lastDataUpdate = IF due THEN currentTime ELSE @],
      data |-> IF got THEN EcgReading(e1, rawEcgValue, currentTime) ELSE cell,
      got |-> got,
      due |-> due]

\* history kept for the properties: hist.rr, the accepted RR intervals in the
\* order of their acceptance (the last RR_BUFFER_SIZE of them); hist.fresh,
\* those accepted since the heart rate was last 0; hist.wasReset, a non-zero
\* heart rate has been reset to 0.  An interval is accepted on the tick that
\* sets lastHeartRateChangeTime (line 236).
Accepted(e, e1) == e1.lastHeartRateChangeTime # e.lastHeartRateChangeTime

Recent(q) ==
  IF Len(q) > RR_BUFFER_SIZE THEN SubSeq(q, Len(q) - RR_BUFFER_SIZE + 1, Len(q)) ELSE q

EcgTick(dt, rawEcgValue, loPos, loNeg) ==
  LET currentTime == now + dt
      r == EcgLoop(ecg, currentEcgData, rawEcgValue, loPos, loNeg, currentTime,
                   MutexFree)
  IN
  /\ EcgCanRun
  /\ now' = currentTime
  /\ ecg' = r.ecg
  /\ currentEcgData' = r.data
  /\ ecgDataUpdated' = (r.got \/ ecgDataUpdated)
  /\ ecgDataSemaphore' = IF r.got THEN 1 ELSE ecgDataSemaphore
  /\ hist' = [published |-> hist.published \cup {Pair(r.data)},
              leadOffSince |->
                IF Pair(r.data) = <<0, FALSE>> THEN -1
                ELSE IF (loPos \/ loNeg) /\ hist.leadOffSince = -1 THEN currentTime
                ELSE hist.leadOffSince,
              rr |-> IF Accepted(ecg, r.ecg)
                     THEN Recent(Append(hist.rr, currentTime - ecg.lastPeakTime))
                     ELSE hist.rr,
              fresh |-> IF r.ecg.heartRate = 0 THEN <<>>
                        ELSE IF Accepted(ecg, r.ecg)
                        THEN Recent(Append(hist.fresh, currentTime - ecg.lastPeakTime))
                        ELSE hist.fresh,
              wasReset |-> (hist.wasReset \/ (ecg.heartRate > 0 /\ r.ecg.heartRate = 0))]
  /\ holds' = [holds EXCEPT !.ecg = ecgPublishLocks(holds.ecg, r.due, MutexFree)]
  /\ displayMutex' = IF "displayMutex" \in holds'.ecg THEN "taken" ELSE displayMutex
  /\ UNCHANGED fallVars

\* the ECG task samples the pulse train
EcgSample(Gaps) ==
  /\ sig.wait = 0 => sig.left > 0
  /\ \E gap \in (IF sig.wait = 0 THEN Gaps ELSE {0}) :
       /\ EcgTick(SAMPLE_INTERVAL_MS, SigRaw,
                  sig.loLeft > 0 /\ sig.lo = 1, sig.loLeft > 0 /\ sig.lo = 2)
       /\ sig' = SigNext(gap)
  /\ UNCHANGED <<wake, audio>>

\* an electrode comes off
LeadOff ==
  /\ sig.episodes > 0
  /\ sig.wait \in LeadOffAt
  /\ sig.loLeft = 0
  /\ \E pin \in LeadOffPins, len \in LeadOffLengths :
       sig' = [sig EXCEPT !.lo = pin, !.loLeft = len, !.episodes = @ - 1]
  /\ UNCHANGED <<now, displayMutex, fallVars, ecg, currentEcgData,
                 ecgDataUpdated, ecgDataSemaphore, ref, mqtt, hist, screen>>
  /\ UNCHANGED <<wake, audio, holds>>

EcgStep == EcgSample(GapChoices) /\ UNCHANGED <<ref, mqtt, screen>>

EcgNext == EcgStep \/ OtherTake \/ OtherGive

SpecEcg == Init /\ [][EcgNext]_vars

\* 75 BPM pulse train, with pauses and lead-off episodes
LeadStep == EcgSample(LeadGaps) /\ UNCHANGED <<ref, mqtt, screen>>

LeadNext == LeadStep \/ LeadOff \/ OtherTake \/ OtherGive

SpecLead == Init /\ [][LeadNext]_vars

(***************************************************************************)
(* Scenario B: the ECG task samples a regular pulse train, one pulse every *)
(* ScenarioBPeriod, for ScenarioBLength, with the leads connected; other   *)
(* tasks take and give displayMutex meanwhile.                             *)
(***************************************************************************)
ScenarioBStep ==
  /\ now < ScenarioBLength
  /\ EcgTick(SAMPLE_INTERVAL_MS, SigRaw, FALSE, FALSE)
  /\ sig' = [sig EXCEPT !.wait = IF @ = 0
                                 THEN ScenarioBPeriod \div SAMPLE_INTERVAL_MS - 1
                                 ELSE @ - 1]
  /\ UNCHANGED <<ref, mqtt, screen>>
  /\ UNCHANGED <<wake, audio>>

ScenarioBNext == ScenarioBStep \/ OtherTake \/ OtherGive

SpecScenarioB == Init /\ [][ScenarioBNext]_vars

(***************************************************************************)
(* Two runs of ecgTask on the same regular 75 BPM pulse train; the first   *)
(* run sees one extra beat, injected shortly after a regular one.          *)
(***************************************************************************)
Inject ==
  /\ sig.inj = "none"
  /\ sig.wait \in InjectAt
  /\ sig.left > 0 /\ sig.left < MaxBeats
  /\ sig' = [sig EXCEPT !.inj = "now"]
  /\ UNCHANGED <<now, displayMutex, fallVars, ecg, currentEcgData,
                 ecgDataUpdated, ecgDataSemaphore, ref, mqtt, hist, screen>>
  /\ UNCHANGED <<wake, audio, holds>>

TwinStep ==
  /\ EcgSample({40})
  /\ ref' = LET r == EcgLoop(ref.ecg, ref.data, RefRaw, FALSE, FALSE,
                             now + SAMPLE_INTERVAL_MS, MutexFree)
            IN [ecg |-> r.ecg, data |-> r.data]
  /\ UNCHANGED <<mqtt, screen>>

TwinNext == TwinStep \/ Inject

SpecTwin == Init /\ [][TwinNext]_vars

(***************************************************************************)
(* A pulse train of changing rate: the gap to the next pulse is one of     *)
(* RateGaps samples (150 and 120 BPM), for RateLength, long enough for the *)
(* RR ring to wrap; the leads are connected and displayMutex is free.      *)
(***************************************************************************)
RateStep ==
  /\ now < RateLength
  /\ \E gap \in (IF sig.wait = 0 THEN RateGaps ELSE {0}) :
       /\ EcgTick(SAMPLE_INTERVAL_MS, SigRaw, FALSE, FALSE)
       /\ sig' = [SigNext(gap) EXCEPT !.left = sig.left]
  /\ UNCHANGED <<ref, mqtt, screen>>
  /\ UNCHANGED <<wake, audio>>

RateNext == RateStep

SpecRate == Init /\ [][RateNext]_vars

(***************************************************************************)
(* A constant input: the first sample is one of DriftLevels and every      *)
(* later sample repeats the one before it, for DriftLength; the leads are  *)
(* connected.                                                              *)
(***************************************************************************)
DriftStep ==
  /\ now < DriftLength
  /\ \E c \in (IF now = 0 THEN DriftLevels
                ELSE {ecg.ecgBuffer[ReadIndex(ecg.bufferIndex, 0)]}) :
       EcgTick(SAMPLE_INTERVAL_MS, c, FALSE, FALSE)
  /\ UNCHANGED <<sig, ref, mqtt, screen>>
  /\ UNCHANGED <<wake, audio>>

DriftNext == DriftStep \/ OtherTake \/ OtherGive

SpecDrift == Init /\ [][DriftNext]_vars

(***************************************************************************)
(* Pulse trains at the limits of the plausible range: gaps of RangeGaps    *)
(* samples (300 ms and 1500 ms, the ends of the accepted range), with      *)
(* lead-off episodes and other tasks using displayMutex.                   *)
(***************************************************************************)
RangeStep == EcgSample(RangeGaps) /\ UNCHANGED <<ref, mqtt, screen>>

RangeNext == RangeStep \/ LeadOff \/ OtherTake \/ OtherGive

SpecRange == Init /\ [][RangeNext]_vars

(***************************************************************************)
(* Smoothing towards a constant raw rate: the task starts from a heart     *)
(* rate of SmoothRates with one interval of SmoothIntervals in the RR      *)
(* ring, and every beat repeats that interval, so that the raw rate        *)
(* (lines 212-224) stays the same and only the smoothing (lines 227-232)   *)
(* moves the heart rate.                                                   *)
(***************************************************************************)
InitSmooth ==
  /\ now = 0
  /\ displayMutex = "free"
  /\ currentState = "MONITORING"
  /\ stateStartTime = 0
  /\ fallDetectedTime = 0
  /\ peakAcceleration = 0
  /\ minAcceleration = 98
  /\ consecutiveImpacts = 0
  /\ accelerationIntegral = 0
  /\ orientation = [pitch |-> 0, roll |-> 0, yaw |-> 0,
                    baselinePitch |-> 0, baselineRoll |-> 0, baselineYaw |-> 0]
  /\ currentFallEvent = [fallDetected |-> FALSE, acceleration |-> 0,
                         orientation |-> <<0, 0, 0>>, timestamp |-> 0,
                         fallSeverity |-> 0]
  /\ fallDetectionUpdated = FALSE
  /\ fallDetectionSemaphore = 0
  /\ currentAudioCommand = [fileNumber |-> 0, repeatCount |-> 0, volume |-> 0]
  /\ audioCommandUpdated = FALSE
  /\ audioCommandSemaphore = 0
  /\ fallTicks = 0
  /\ fallTask = [state |-> "starting", begins |-> 0, sleeps |-> 0]
  /\ episode = [acc |-> 0, samples |-> 0, run |-> 0]
  /\ scenario = [name |-> "none", rest |-> <<>>, first |-> 0, peak |-> 0]
  /\ \E h \in SmoothRates, r \in SmoothIntervals :
       ecg = [EcgInit EXCEPT !.heartRate = h, !.rrIntervals[0] = r, !.rrIndex = 1,
                             !.leadsConnected = TRUE]
  /\ currentEcgData = EcgDataInit
  /\ ecgDataUpdated = FALSE
  /\ ecgDataSemaphore = 0
  /\ sig \in SigInit
  /\ ref = [ecg |-> EcgInit, data |-> EcgDataInit]
  /\ mqtt = [pc |-> "idle", heartRate |-> 0, validSignal |-> FALSE,
             sent |-> Pair(EcgDataInit),
             copy |-> "idle", i |-> 0, samples |-> <<>>, writes |-> 0]
  /\ hist = [published |-> {Pair(EcgDataInit)}, leadOffSince |-> -1,
             rr |-> <<>>, fresh |-> <<>>, wasReset |-> FALSE]
  /\ screen = [currentScreenState |-> "MAIN", currentHeartRate |-> 0,
               seenFall |-> <<-1, FALSE>>, seenEcg |-> -1, again |-> FALSE,
               waited |-> 0]
  /\ wake = [t \in {"ecg", "fall"} |->
               [xLastWakeTime |-> 0, calls |-> 0, released |-> 0, busyUntil |-> 0]]
  /\ holds = [t \in {"ecg", "fall"} |-> {}]
  /\ audio = [played |-> <<>>, reminders |-> MaxReminders]

SmoothStep ==
  LET rrInterval == ecg.rrIntervals[0]
      rr == [i \in 0..(RR_BUFFER_SIZE - 1) |->
               IF i = ecg.rrIndex \/ ecg.rrIntervals[i] > 0 THEN rrInterval ELSE 0]
  IN
  /\ now < SmoothLength
  /\ now' = now + rrInterval
  /\ ecg' = [ecg EXCEPT !.rrIntervals = rr,
                        !.rrIndex = (ecg.rrIndex + 1) % RR_BUFFER_SIZE,
                        !.heartRate = Smooth(ecg.heartRate, NewHeartRate(rr)),
                        !.lastHeartRateChangeTime = now + rrInterval,
                        !.lastPeakTime = now + rrInterval]
  /\ UNCHANGED <<displayMutex, fallVars, currentEcgData, ecgDataUpdated,
                 ecgDataSemaphore, sig, ref, mqtt, hist, screen, wake, holds, audio>>

SmoothNext == SmoothStep

SpecSmooth == InitSmooth /\ [][SmoothNext]_vars

(***************************************************************************)
(* Pulses of different widths: the ECG task samples a pulse train with one *)
(* pulse every ScenarioBPeriod, the leads connected; a pulse lasts one of  *)
(* PulseWidths samples (sig.high counts the samples it still stays up).    *)
(* The first two pulses come before StartupTime, the third after it.       *)
(***************************************************************************)
WideStep ==
  /\ sig.wait = 0 => sig.left > 0
  /\ \E w \in (IF sig.wait = 0 THEN PulseWidths ELSE {0}) :
       /\ EcgTick(SAMPLE_INTERVAL_MS, SigRaw, FALSE, FALSE)
       /\ sig' = [SigNext(ScenarioBPeriod \div SAMPLE_INTERVAL_MS) EXCEPT
                    !.high = IF sig.wait = 0 THEN w - 1
                             ELSE IF @ > 0 THEN @ - 1 ELSE 0]
  /\ UNCHANGED <<ref, mqtt, screen>>
  /\ UNCHANGED <<wake, audio>>

WideNext == WideStep \/ OtherTake \/ OtherGive

SpecWide == Init /\ [][WideNext]_vars

(***************************************************************************)
(* publishEcgData() of the MQTT task (part_011:69-96), on the other core:  *)
(* the fields of currentEcgData are read one after the other and without   *)
(* displayMutex.                                                           *)
(***************************************************************************)
MqttBegin ==
  /\ mqtt.pc = "idle"
  /\ ecgDataUpdated
  /\ mqtt' = [mqtt EXCEPT !.pc = "heart_rate"]
  /\ UNCHANGED <<now, displayMutex, fallVars, ecg, currentEcgData,
                 ecgDataUpdated, ecgDataSemaphore, sig, ref, hist, screen>>
  /\ UNCHANGED <<wake, audio, holds>>

MqttReadHeartRate ==
  /\ mqtt.pc = "heart_rate"
  /\ mqtt' = [mqtt EXCEPT !.pc = "valid", !.heartRate = currentEcgData.heartRate]
  /\ UNCHANGED <<now, displayMutex, fallVars, ecg, currentEcgData,
                 ecgDataUpdated, ecgDataSemaphore, sig, ref, hist, screen>>
  /\ UNCHANGED <<wake, audio, holds>>

MqttReadValid ==
  /\ mqtt.pc = "valid"
  /\ mqtt' = [mqtt EXCEPT !.pc = "publish", !.validSignal = currentEcgData.validSignal]
  /\ UNCHANGED <<now, displayMutex, fallVars, ecg, currentEcgData,
                 ecgDataUpdated, ecgDataSemaphore, sig, ref, hist, screen>>
  /\ UNCHANGED <<wake, audio, holds>>

MqttPublish ==
  /\ mqtt.pc = "publish"
  /\ mqtt' = [mqtt EXCEPT !.pc = "idle", !.sent = <<mqtt.heartRate, mqtt.validSignal>>]
  /\ ecgDataUpdated' = FALSE
  /\ UNCHANGED <<now, displayMutex, fallVars, ecg, currentEcgData,
                 ecgDataSemaphore, sig, ref, hist, screen>>
  /\ UNCHANGED <<wake, audio, holds>>

BusNext == LeadStep \/ MqttBegin \/ MqttReadHeartRate \/ MqttReadValid \/ MqttPublish

SpecBus == Init /\ [][BusNext]_vars

(***************************************************************************)
(* The raw samples.  The ECG task is fed a ramp: the k-th sample read from *)
(* the ADC has the value k, so that a slot of ecgBuffer tells which sample *)
(* it holds.  publishEcgData() of the MQTT task (part_011:77-85) copies    *)
(* the numEcgSamples most recent samples, reading bufferIndex and          *)
(* ecgBuffer anew for every sample and without a lock, while the ECG task  *)
(* on the other core goes on writing (part_013:96-101).                    *)
(***************************************************************************)
numEcgSamples == 30

\* number of samples stored so far
Written == now \div SAMPLE_INTERVAL_MS

RampStep(length) ==
  /\ now < length
  /\ mqtt.copy = "samples" => mqtt.writes < MaxWritesDuringCopy
  /\ EcgTick(SAMPLE_INTERVAL_MS, Written + 1, FALSE, FALSE)
  /\ mqtt' = [mqtt EXCEPT !.writes = IF mqtt.copy = "samples" THEN @ + 1 ELSE @]
  /\ UNCHANGED <<sig, ref, screen, wake, audio>>

RingStep == RampStep(RingLength)

SpecRing == Init /\ [][RingStep]_vars

CopyBegin ==
  /\ mqtt.copy = "idle"
  /\ ecgDataUpdated
  /\ mqtt' = [mqtt EXCEPT !.copy = "samples", !.i = 0, !.samples = <<>>,
                          !.writes = 0]
  /\ UNCHANGED <<now, displayMutex, fallVars, ecg, currentEcgData,
                 ecgDataUpdated, ecgDataSemaphore, sig, ref, hist, screen, wake, holds, audio>>

CopySample ==
  /\ mqtt.copy = "samples"
  /\ mqtt' = [mqtt EXCEPT
                !.samples = Append(@, ecg.ecgBuffer[ReadIndex(ecg.bufferIndex, mqtt.i)]),
                !.i = @ + 1,
                !.copy = IF mqtt.i + 1 < numEcgSamples THEN "samples" ELSE "done"]
  /\ UNCHANGED <<now, displayMutex, fallVars, ecg, currentEcgData,
                 ecgDataUpdated, ecgDataSemaphore, sig, ref, hist, screen, wake, holds, audio>>

CopyEnd ==
  /\ mqtt.copy = "done"
  /\ mqtt' = [mqtt EXCEPT !.copy = "idle"]
  /\ ecgDataUpdated' = FALSE
  /\ UNCHANGED <<now, displayMutex, fallVars, ecg, currentEcgData,
                 ecgDataSemaphore, sig, ref, hist, screen, wake, holds, audio>>

CopyNext == RampStep(CopyLength) \/ CopyBegin \/ CopySample \/ CopyEnd

SpecCopy == Init /\ [][CopyNext]_vars

(***************************************************************************)
(* One iteration of screenTask's freshness checks (part_009:417-453): the  *)
(* binary semaphore of each cell is taken without waiting and, after the   *)
(* cell is read, given back (lines 427, 452).  What identifies a publish   *)
(* is the time stamp the producer wrote (and, for the fall cell, the       *)
(* flag, since the clearing publish of line 981 leaves the stamp alone).   *)
(***************************************************************************)
FallPublishId == <<currentFallEvent.timestamp, currentFallEvent.fallDetected>>

EcgPublishId == currentEcgData.timestamp

ScreenTick ==
  LET hasFallUpdate == fallDetectionSemaphore = 1
      isFallDetected == hasFallUpdate /\ fallDetectionUpdated
                          /\ currentFallEvent.fallDetected
      hasEcgUpdate == ecgDataSemaphore = 1
  IN
  /\ screen' =
       [currentScreenState |-> IF hasFallUpdate
                               THEN (IF isFallDetected THEN "FALL" ELSE "MAIN")
                               ELSE screen.currentScreenState,
        currentHeartRate |-> IF hasEcgUpdate /\ ecgDataUpdated
                             THEN currentEcgData.heartRate
                             ELSE screen.currentHeartRate,
        seenFall |-> IF hasFallUpdate THEN FallPublishId ELSE screen.seenFall,
        seenEcg |-> IF hasEcgUpdate THEN EcgPublishId ELSE screen.seenEcg,
        again |-> \/ screen.again
                  \/ (hasFallUpdate /\ screen.seenFall = FallPublishId)
                  \/ (hasEcgUpdate /\ screen.seenEcg = EcgPublishId),
        waited |-> 0]
  /\ UNCHANGED <<now, displayMutex, fallVars, ecg, currentEcgData,
                 ecgDataUpdated, ecgDataSemaphore, sig, ref, mqtt, hist>>
  /\ UNCHANGED <<wake, audio, holds>>

ScreenNext == LeadStep \/ ScreenTick

(***************************************************************************)
(* The ECG check of screenTask in src/src/tasks/screen_task.cpp (lines     *)
(* 129-156): the notification is taken without waiting, then displayMutex  *)
(* is requested for up to TakeTimeout; the cell is read only if the mutex  *)
(* was obtained, and the notification is not given back.                   *)
(***************************************************************************)
ScreenEcgCheck ==
  /\ ecgDataSemaphore = 1
  /\ ecgDataSemaphore' = 0
  /\ screen' = [screen EXCEPT
                  !.seenEcg = EcgPublishId,
                  !.currentHeartRate = IF MutexFree THEN currentEcgData.heartRate
                                       ELSE @,
                  !.waited = IF MutexFree THEN 0 ELSE TakeTimeout]
  /\ UNCHANGED <<now, displayMutex, fallVars, ecg, currentEcgData,
                 ecgDataUpdated, sig, ref, mqtt, hist, wake, holds, audio>>

ScreenLockNext == LeadStep \/ ScreenEcgCheck \/ OtherTake \/ OtherGive

SpecScreenLock == Init /\ [][ScreenLockNext]_vars

SpecScreen == Init /\ [][ScreenNext]_vars

(***************************************************************************)
(* Test scenarios for the fall task: sequences of <<elapsed ms, magnitude, *)
(* pitch>> fed to successive iterations of the loop.                       *)
(*                                                                         *)
(* Scenario A: 50 Hz samples of 2 m/s^2 for 200 ms, one sample of          *)
(* 20 m/s^2, the orientation 30 degrees off the baseline, then one more    *)
(* sample for the iteration that judges the impact.                        *)
(*                                                                         *)
(* Re-arm: a fall (2 m/s^2, then the impact 100 ms later, judged on a      *)
(* catch-up iteration 5 ms after it), an iteration after the cooldown,     *)
(* then a second fall of the same shape with its own peak.                 *)
(***************************************************************************)
ScenarioA(last) ==
  [i \in 1..10 |-> <<FallPeriod, 20, 300>>]
    \o <<<<FallPeriod, 200, 300>>, <<FallPeriod, last, 300>>>>

FallPattern(peak) == <<<<FallPeriod, 20, 0>>, <<100, peak, 0>>, <<5, 98, 0>>>>

Rearm(first, second) ==
  FallPattern(first) \o <<<<fallResetTime + FallPeriod, 98, 0>>>> \o FallPattern(second)

\* a fall of the same shape with the device level or tipped over
Tilt(pitch) == <<<<FallPeriod, 20, pitch>>, <<100, 200, pitch>>, <<5, 98, pitch>>>>

Scenarios ==
  {[name |-> "A", rest |-> ScenarioA(last), first |-> 200, peak |-> 200] :
      last \in ScenarioLast}
  \cup {[name |-> "Rearm", rest |-> Rearm(p1, p2), first |-> p1, peak |-> p2] :
           p1 \in RearmPeaks, p2 \in RearmPeaks}
  \cup {[name |-> "Tilt", rest |-> Tilt(p), first |-> 200, peak |-> 200] :
           p \in TiltPitches}

ChooseScenario ==
  /\ scenario.name = "none"
  /\ fallTicks = 0
  /\ scenario' \in Scenarios
  /\ UNCHANGED <<now, displayMutex, currentState, stateStartTime, fallDetectedTime,
                 peakAcceleration, minAcceleration, consecutiveImpacts,
                 accelerationIntegral, orientation, currentFallEvent,
                 fallDetectionUpdated, fallDetectionSemaphore, currentAudioCommand,
                 audioCommandUpdated, audioCommandSemaphore, fallTicks, fallTask,
                 episode,
                 ecgVars>>
  /\ UNCHANGED <<wake, audio, holds>>

ScenarioStep ==
  /\ scenario.rest # <<>>
  /\ LET x == Head(scenario.rest) IN FallTick(x[1], x[2], x[3])
  /\ scenario' = [scenario EXCEPT !.rest = Tail(@)]
  /\ UNCHANGED <<wake, audio>>

ScenarioNext == ChooseScenario \/ ScenarioStep \/ OtherTake \/ OtherGive

SpecScenario == Init /\ [][ScenarioNext]_vars

(***************************************************************************)
(* Start-up without the inertial sensor (fall_detection_task.cpp:750-755): *)
(* mpu.begin() returns false and the task stays in while (1)               *)
(* vTaskDelay(100).  fallTask.begins counts the calls of mpu.begin(),      *)
(* fallTask.sleeps the delays; the ECG task and the screen task run        *)
(* meanwhile.                                                              *)
(***************************************************************************)
InitFailedDelay == 100

\* variant: the task enters the loop with displayMutex taken
InitFailedLoopHolding(mutex) == "held"

\* lines 752-754: the loop only delays; no lock is touched
InitFailedLoop(mutex) == mutex

FallBeginFails ==
  /\ fallTask.state = "starting" /\ now = 0
  /\ fallTask' = [state |-> "failed", begins |-> fallTask.begins + 1, sleeps |-> 0]
  /\ displayMutex' = InitFailedLoop(displayMutex)
  /\ UNCHANGED <<now, currentState, stateStartTime, fallDetectedTime,
                 peakAcceleration, minAcceleration, consecutiveImpacts,
                 accelerationIntegral, orientation, currentFallEvent,
                 fallDetectionUpdated, fallDetectionSemaphore,
                 currentAudioCommand, audioCommandUpdated, audioCommandSemaphore,
                 fallTicks, episode, scenario, ecgVars>>
  /\ UNCHANGED <<wake, audio, holds>>

FallSleep ==
  /\ fallTask.state = "failed"
  /\ fallTask.sleeps * InitFailedDelay < now
  /\ fallTask' = [fallTask EXCEPT !.sleeps = @ + 1]
  /\ displayMutex' = InitFailedLoop(displayMutex)
  /\ UNCHANGED <<now, currentState, stateStartTime, fallDetectedTime,
                 peakAcceleration, minAcceleration, consecutiveImpacts,
                 accelerationIntegral, orientation, currentFallEvent,
                 fallDetectionUpdated, fallDetectionSemaphore,
                 currentAudioCommand, audioCommandUpdated, audioCommandSemaphore,
                 fallTicks, episode, scenario, ecgVars>>
  /\ UNCHANGED <<wake, audio, holds>>

(***************************************************************************)
(* Release times of the two sampling loops.  Each iteration begins with    *)
(* vTaskDelayUntil(&xLastWakeTime, xFrequency) (fall_detection_task.cpp:   *)
(* 775, part_013:93): xLastWakeTime advances by one period, and the call   *)
(* returns at that time, or at once when that time has passed.  An         *)
(* iteration waits TakeTimeout for displayMutex when another task holds it *)
(* (part_013:118 and 267, fall_detection_task.cpp:952, 981, 1021) and      *)
(* LeadOffDelay on the lead-off path (part_013:135).  Both loops run on    *)
(* core 1 at the same priority: the iteration released first runs first.   *)
(***************************************************************************)
\* setup() (main.cpp:227-336): the priority given to xTaskCreatePinnedToCore
\* for each task; a higher number is a higher priority
uxPriority ==
  [WiFi |-> 10, Time |-> 9, MQTT |-> 7, HTTP |-> 6,
   FallDetection |-> 5, ECG |-> 5, GPS |-> 5, Screen |-> 5, Audio |-> 5,
   Medication |-> 5]

\* the tasks that read the cells
BusConsumers == {"Screen", "MQTT", "HTTP", "Audio"}

Later(a, b) == IF a >= b THEN a ELSE b

\* variant: a relative sleep of one period after the iteration has ended
DelayUntilRelative(w, xFrequency) ==
  [w EXCEPT !.xLastWakeTime = w.busyUntil + xFrequency,
            !.calls = @ + 1,
            !.released = w.busyUntil + xFrequency]

\* vTaskDelayUntil, called at time w.busyUntil
DelayUntil(w, xFrequency) ==
  [w EXCEPT !.xLastWakeTime = @ + xFrequency,
            !.calls = @ + 1,
            !.released = Later(w.xLastWakeTime + xFrequency, w.busyUntil)]

xFrequency(t) == IF t = "ecg" THEN SAMPLE_INTERVAL_MS ELSE FallPeriod

NextRelease(t) == DelayUntil(wake[t], xFrequency(t)).released

TimedEcgStep ==
  LET w == DelayUntil(wake.ecg, xFrequency("ecg"))
      off == sig.loLeft > 0
  IN
  /\ w.released <= TimingLength
  /\ w.released <= NextRelease("fall")
  /\ EcgTick(w.released - now, SigRaw, off /\ sig.lo = 1, off /\ sig.lo = 2)
  /\ sig' = [SigNext(ScenarioBPeriod \div SAMPLE_INTERVAL_MS) EXCEPT !.left = sig.left]
  /\ wake' = [wake EXCEPT !.ecg =
                [w EXCEPT !.busyUntil =
                   w.released
                   + (IF ecg'.lastDataUpdate = now' /\ ~MutexFree
                      THEN TakeTimeout ELSE 0)
                   + (IF off THEN LeadOffDelay ELSE 0)]]
  /\ UNCHANGED <<ref, mqtt, screen>>
  /\ UNCHANGED audio

TimedFallStep ==
  LET w == DelayUntil(wake.fall, xFrequency("fall"))
      a == IF fallTicks < Len(TimingScript) THEN TimingScript[fallTicks + 1] ELSE 98
  IN
  /\ w.released <= TimingLength
  /\ w.released <= NextRelease("ecg")
  /\ FallTick(w.released - now, a, 0)
  /\ wake' = [wake EXCEPT !.fall =
                [w EXCEPT !.busyUntil =
                   w.released
                   + (IF MutexFree THEN 0
                      ELSE IF currentState = "IMPACT_DETECTED"
                              /\ currentState' = "FALL_CONFIRMED"
                      THEN 2 * TakeTimeout
                      ELSE IF currentState = "FALL_CONFIRMED"
                              /\ currentState' = "MONITORING"
                      THEN TakeTimeout
                      ELSE 0)]]
  /\ UNCHANGED scenario
  /\ UNCHANGED audio

TimingNext == TimedEcgStep \/ TimedFallStep \/ LeadOff \/ OtherTake \/ OtherGive

SpecTiming == Init /\ [][TimingNext]_vars

(***************************************************************************)
(* Start-up with the sensor present (fall_detection_task.cpp:757-786):     *)
(* calibrateAccelerometer runs before the loop is entered, then the loop   *)
(* samples; other tasks take and give displayMutex meanwhile.              *)
(***************************************************************************)
Calibrate ==
  /\ fallTask.state = "starting" /\ fallTicks = 0
  /\ \E pitch \in CalibrationPitches :
       orientation' = calibrateAccelerometer(orientation, pitch, 0, 0)
  /\ fallTask' = [state |-> "calibrated", begins |-> 1, sleeps |-> 0]
  /\ now' = now + numSamples * FallPeriod
  /\ UNCHANGED <<displayMutex, currentState, stateStartTime, fallDetectedTime,
                 peakAcceleration, minAcceleration, consecutiveImpacts,
                 accelerationIntegral, currentFallEvent,
                 fallDetectionUpdated, fallDetectionSemaphore,
                 currentAudioCommand, audioCommandUpdated, audioCommandSemaphore,
                 fallTicks, episode, scenario, ecgVars>>
  /\ UNCHANGED <<wake, audio, holds>>

CalibratedStep ==
  /\ fallTask.state \in {"calibrated", "running"}
  /\ fallTicks < MaxCalibratedTicks
  /\ \E a \in AccSamples, p \in TiltPitches : FallTick(FallPeriod, a, p)
  /\ UNCHANGED scenario
  /\ UNCHANGED <<wake, audio>>

CalibrateNext == Calibrate \/ CalibratedStep \/ OtherTake \/ OtherGive

SpecCalibrate == Init /\ [][CalibrateNext]_vars

InitFailNext == FallBeginFails \/ FallSleep \/ ScenarioBStep \/ ScreenTick

SpecInitFail == Init /\ [][InitFailNext]_vars

(***************************************************************************)
(* The two producers together (main.cpp:278-296: both on core 1, both with *)
(* a 20 ms period).  The ECG iteration moves the clock; the fall iteration *)
(* of the same period runs at the same millis().                           *)
(***************************************************************************)
ProducersFallStep ==
  /\ fallTicks < MaxFallTicks
  /\ fallTicks * FallPeriod < now
  /\ \E a \in AccSamples, p \in PitchSamples : FallTick(0, a, p)
  /\ UNCHANGED scenario
  /\ UNCHANGED <<wake, audio>>

ProducersEcgStep ==
  /\ fallTicks * FallPeriod >= now \/ fallTicks >= MaxFallTicks
  /\ EcgSample({40})
  /\ UNCHANGED <<ref, mqtt, screen>>

ProducersNext == ProducersFallStep \/ ProducersEcgStep \/ OtherTake \/ OtherGive

SpecProducers == Init /\ [][ProducersNext]_vars

(***************************************************************************)
(* The audio command cell: written by the fall task on a confirmed fall    *)
(* (fall_detection_task.cpp:951-961) and by the medication task            *)
(* (medication_task.cpp:410-420), read by the audio task                   *)
(* (audio_task.cpp:40-80).  All three take displayMutex with a 100 ms      *)
(* timeout and skip their access when they do not get it.                  *)
(***************************************************************************)
AUDIO_MEDICATION == 6
AUDIO_MAX_VOLUME == 30

\* the alert of a confirmed fall is in the cell and the audio task has been
\* signalled but has not read it yet
PendingFallAlert ==
  /\ audioCommandSemaphore = 1
  /\ audioCommandUpdated
  /\ currentAudioCommand.fileNumber = AUDIO_FALL_DETECTED
  /\ currentAudioCommand.repeatCount = 3

playMedicationSound(isAdvance) ==
  /\ audio.reminders > 0
  /\ audio' = [audio EXCEPT !.reminders = @ - 1]
  /\ IF MutexFree
     THEN /\ currentAudioCommand' = [fileNumber |-> AUDIO_MEDICATION,
                                     repeatCount |-> IF isAdvance THEN 1 ELSE 2,
                                     volume |-> AUDIO_MAX_VOLUME]
          /\ audioCommandUpdated' = TRUE
          /\ audioCommandSemaphore' = 1
     ELSE UNCHANGED <<currentAudioCommand, audioCommandUpdated, audioCommandSemaphore>>
  /\ UNCHANGED <<now, displayMutex, currentState, stateStartTime, fallDetectedTime,
                 peakAcceleration, minAcceleration, consecutiveImpacts,
                 accelerationIntegral, orientation, currentFallEvent,
                 fallDetectionUpdated, fallDetectionSemaphore, fallTicks, fallTask,
                 episode, scenario, ecgVars, wake, holds>>

MedicationStep == \E isAdvance \in BOOLEAN : playMedicationSound(isAdvance)

\* one iteration of audioTask that finds audioCommandSemaphore given
AudioTick ==
  /\ audioCommandSemaphore = 1
  /\ audioCommandSemaphore' = 0
  /\ IF MutexFree
     THEN /\ audioCommandUpdated' = FALSE
          /\ audio' = [audio EXCEPT !.played =
                         IF audioCommandUpdated
                         THEN Append(@, <<currentAudioCommand.fileNumber,
                                          currentAudioCommand.repeatCount>>)
                         ELSE @]
     ELSE UNCHANGED <<audioCommandUpdated, audio>>
  /\ UNCHANGED <<now, displayMutex, currentState, stateStartTime, fallDetectedTime,
                 peakAcceleration, minAcceleration, consecutiveImpacts,
                 accelerationIntegral, orientation, currentFallEvent,
                 fallDetectionUpdated, fallDetectionSemaphore, currentAudioCommand,
                 fallTicks, fallTask, episode, scenario, ecgVars, wake, holds>>

AudioNext ==
  ChooseScenario \/ ScenarioStep \/ OtherTake \/ OtherGive \/ MedicationStep \/ AudioTick

SpecAudio == Init /\ [][AudioNext]_vars

(***************************************************************************)
(* Samples at the thresholds: the fall task reads accelerations just       *)
(* below and at freefallThreshold and at and just above impactThreshold,   *)
(* BoundaryDeltas apart.                                                   *)
(***************************************************************************)
BoundaryStep ==
  /\ fallTicks < MaxBoundaryTicks
  /\ \E dt \in BoundaryDeltas, a \in BoundarySamples, p \in PitchSamples :
       FallTick(dt, a, p)
  /\ UNCHANGED scenario
  /\ UNCHANGED <<wake, audio>>

BoundaryNext == BoundaryStep \/ OtherTake \/ OtherGive

SpecBoundary == Init /\ [][BoundaryNext]_vars

Next == FallStep \/ OtherTake \/ OtherGive

Spec == Init /\ [][Next]_vars

(***************************************************************************)
(* Fall detector: properties                                               *)
(***************************************************************************)

\* C1: every FallEvent published with fallDetected = TRUE has fallSeverity in
\* 1..10, whatever the episode's peak acceleration.
C1_SeverityInRange ==
  currentFallEvent.fallDetected => currentFallEvent.fallSeverity \in 1..10

\* C2: FALL_CONFIRMED is entered only from IMPACT_DETECTED, IMPACT_DETECTED
\* only from POTENTIAL_FALL and POTENTIAL_FALL only from MONITORING; in
\* particular no step takes MONITORING to FALL_CONFIRMED.
C2_OrderedTransitions ==
  [][/\ (currentState' = "FALL_CONFIRMED" /\ currentState # "FALL_CONFIRMED")
          => currentState = "IMPACT_DETECTED"
     /\ (currentState' = "IMPACT_DETECTED" /\ currentState # "IMPACT_DETECTED")
          => currentState = "POTENTIAL_FALL"
     /\ (currentState' = "POTENTIAL_FALL" /\ currentState # "POTENTIAL_FALL")
          => currentState = "MONITORING"]_vars

\* a fall was confirmed and published after the three earlier states were visited
C2_Witness ==
  /\ currentState = "FALL_CONFIRMED"
  /\ currentFallEvent.fallDetected
  /\ fallTicks >= 3

\* C3: while the machine is in its cooldown (FALL_CONFIRMED, entered at
\* fallDetectedTime and now - fallDetectedTime <= fallResetTime) the published
\* FallEvent has fallDetected = TRUE, also when displayMutex was contended on
\* the confirming tick.
C3_DetectedHeldDuringCooldown ==
  (currentState = "FALL_CONFIRMED" /\ now - fallDetectedTime <= fallResetTime)
     => currentFallEvent.fallDetected

\* C4: from the tick that leaves FALL_CONFIRMED until the next confirmation the
\* published FallEvent has fallDetected = FALSE, also when displayMutex could
\* not be taken on the leaving tick.
C4_ClearedAfterCooldown ==
  currentState # "FALL_CONFIRMED" => ~currentFallEvent.fallDetected

\* C5: a publish dropped for lock contention is attempted again on the
\* producer's next cycle: a tick of the fall task that runs in FALL_CONFIRMED
\* with displayMutex free leaves the FallEvent published with fallDetected = TRUE.
C5_FallPublishRetried ==
  [][(/\ fallTicks' # fallTicks
      /\ currentState = "FALL_CONFIRMED"
      /\ currentState' = "FALL_CONFIRMED"
      /\ displayMutex = "free")
       => currentFallEvent'.fallDetected]_vars

(***************************************************************************)
(* Heart-rate extractor: properties                                        *)
(***************************************************************************)

\* C6: when no QRS complex has been confirmed for more than the staleness
\* window (8 s) at the time a reading is published, that reading has
\* heartRate = 0 and validSignal = FALSE.  The cell carries the time of its
\* publish, and lastPeakTime only grows.
C6_StaleReadingIsZero ==
  currentEcgData.timestamp - ecg.lastPeakTime > StalenessWindow
     => Pair(currentEcgData) = <<0, FALSE>>

\* a rate had been computed, then more than 8 s passed without a complex and
\* the reading published on this tick is (0, FALSE)
C6_Witness ==
  /\ ecg.lastHeartRateChangeTime > 0
  /\ \E p \in hist.published : p[1] > 0
  /\ currentEcgData.timestamp = now
  /\ now - ecg.lastPeakTime > StalenessWindow
  /\ Pair(currentEcgData) = <<0, FALSE>>

C8_RRRingInRange ==
  \A i \in 0..(RR_BUFFER_SIZE - 1) :
     ecg.rrIntervals[i] = 0
       \/ (ecg.rrIntervals[i] >= RR_MIN_LIMIT /\ ecg.rrIntervals[i] <= RR_MAX_LIMIT)

\* an interval was stored and a later beat's interval was refused
C8_Witness ==
  /\ ecg.rrIntervals[0] > 0
  /\ ecg.lastHeartRateChangeTime > 0
  /\ ecg.lastPeakTime > ecg.lastHeartRateChangeTime

\* C9: the run with the injected beat publishes the same heart rate as the
\* run without it.
C9_InjectedBeatHarmless ==
  currentEcgData.heartRate = ref.data.heartRate

\* C10: what the MQTT task sends is one of the readings the cell has held.
C10_SnapshotWasPublished ==
  mqtt.sent \in hist.published

(***************************************************************************)
(* Bus, scenarios and start-up: properties                                 *)
(***************************************************************************)

\* C11: a freshness check of screenTask never succeeds for a publish whose
\* freshness the task has already consumed.
C11_FreshAtMostOnce == ~screen.again

C13_FallPublishIndependent ==
  [][(currentState = "IMPACT_DETECTED" /\ currentState' = "FALL_CONFIRMED")
       => (currentFallEvent'.timestamp = now' /\ fallDetectionSemaphore' = 1)]_vars

\* C14: after k iterations of the ECG loop bufferIndex is k mod 250, within
\* 0..249; each iteration writes its sample to the slot bufferIndex pointed
\* at and to no other slot, so the 251st sample lands in slot 0.
C14_RingIndex ==
  /\ [](/\ ecg.bufferIndex = (now \div SAMPLE_INTERVAL_MS) % ECG_BUFFER_SIZE
         /\ ecg.bufferIndex \in 0..(ECG_BUFFER_SIZE - 1)
         /\ DOMAIN ecg.ecgBuffer = 0..(ECG_BUFFER_SIZE - 1))
  /\ [][ecg' # ecg
          => ecg'.ecgBuffer = [ecg.ecgBuffer EXCEPT ![ecg.bufferIndex] = SigRaw]]_vars

\* the 251st sample has just been stored in slot 0
C14_Witness ==
  /\ now = (ECG_BUFFER_SIZE + 1) * SAMPLE_INTERVAL_MS
  /\ ecg.bufferIndex = 1
  /\ ecg.ecgBuffer[0] = RawLevels.rest

\* C15: when the samples of scenario A have been fed, the machine is in
\* FALL_CONFIRMED.
C15_ScenarioAConfirms ==
  (scenario.name = "A" /\ scenario.rest = <<>>) => currentState = "FALL_CONFIRMED"

\* C16: in Scenario B (a pulse every 800 ms, leads connected) every EcgData
\* published from 3 s on carries a heart rate in [72, 78] and
\* validSignal = true.
C16_ScenarioBConverges ==
  (currentEcgData.timestamp >= 3 * MQTT_PUBLISH_INTERVAL_MS)
    => (currentEcgData.heartRate \in 72..78 /\ currentEcgData.validSignal)

\* the reading published at the end of the 10 s, after at least eight
\* intervals went into the RR ring
C16_Witness ==
  /\ currentEcgData.timestamp >= ScenarioBLength
  /\ currentEcgData.heartRate = 75 /\ currentEcgData.validSignal
  /\ RRCount(ecg.rrIntervals) = RR_BUFFER_SIZE
  /\ \A i \in 0..(RR_BUFFER_SIZE - 1) : ecg.rrIntervals[i] = ScenarioBPeriod

\* C17: a reading published with validSignal = true was published on a tick
\* where the leads were connected, the spread of the last 5 raw samples was
\* within [FlatlineMin, NoiseMax], and a beat had been confirmed within the
\* last 8 s.
C17_ValidOnlyIfSignalGood ==
  (currentEcgData.timestamp = now /\ currentEcgData.validSignal)
    => /\ ecg.leadsConnected
       /\ Spread(ecg) >= FlatlineMin /\ Spread(ecg) <= NoiseMax
       /\ now - ecg.lastPeakTime <= StalenessWindow

\* C18: a fall task whose sensor was not found has called mpu.begin() more
\* than once before it gave up, and has published its disabled status.
C18_BoundedRetryThenReported ==
  (fallTask.state = "failed" /\ fallTask.sleeps > 0)
    => /\ fallTask.begins > 1
       /\ fallDetectionUpdated \/ fallDetectionSemaphore = 1

\* C19: while the fall task sits in its failure loop displayMutex is free,
\* the ECG task can run, it has stored one sample per 20 ms, and the ECG
\* cell is never older than one publish interval.
C19_RestKeepsRunning ==
  fallTask.state = "failed"
    => /\ displayMutex = "free"
       /\ EcgCanRun
       /\ ecg.bufferIndex = (now \div SAMPLE_INTERVAL_MS) % ECG_BUFFER_SIZE
       /\ now - currentEcgData.timestamp <= MQTT_PUBLISH_INTERVAL_MS

\* the fall task has slept through the whole run, a rate of 75 was
\* published at the end of it and the screen task has read it
C19_Witness ==
  /\ fallTask.state = "failed"
  /\ fallTask.sleeps * InitFailedDelay >= ScenarioBLength
  /\ currentEcgData.timestamp >= ScenarioBLength
  /\ currentEcgData.heartRate = 75 /\ currentEcgData.validSignal
  /\ screen.currentHeartRate = 75

\* C20: the tick that leaves FALL_CONFIRMED goes to MONITORING with peak,
\* minimum, integral and impact counter reset; and when the second fall of
\* the re-arm scenario has been fed the machine is in FALL_CONFIRMED again,
\* and the FallEvent published on that tick carries the peak and the
\* severity of the second episode only.
C20_Rearms ==
  /\ [][(currentState = "FALL_CONFIRMED" /\ currentState' # "FALL_CONFIRMED")
          => /\ currentState' = "MONITORING"
             /\ peakAcceleration' = 0
             /\ minAcceleration' = 98
             /\ accelerationIntegral' = 0
             /\ consecutiveImpacts' = 0]_vars
  /\ []((scenario.name = "Rearm" /\ scenario.rest = <<>>)
          => /\ currentState = "FALL_CONFIRMED"
             /\ currentFallEvent.timestamp = now
                  => /\ currentFallEvent.fallDetected
                     /\ currentFallEvent.acceleration = scenario.peak
                     /\ currentFallEvent.fallSeverity = FallSeverity(scenario.peak))

\* a 70 m/s^2 fall was published, the cooldown ended, and the second fall
\* has just been published with its own 20 m/s^2 peak
C20_Witness ==
  /\ scenario.name = "Rearm" /\ scenario.rest = <<>>
  /\ scenario.first = 700 /\ scenario.peak = 200
  /\ currentState = "FALL_CONFIRMED"
  /\ currentFallEvent.timestamp = now
  /\ currentFallEvent.acceleration = 200
  /\ currentFallEvent.fallSeverity = 2

(***************************************************************************)
(* The fall machine, state by state: properties                            *)
(***************************************************************************)

C28_WindowBounded ==
  /\ [](currentState = "POTENTIAL_FALL"
          => now - stateStartTime <= maxFreefallWindow)
  /\ [][(/\ currentState = "POTENTIAL_FALL"
         /\ fallTicks' # fallTicks
         /\ ~(/\ now' - stateStartTime >= minFreefallDuration
              /\ episode'.acc > impactThreshold))
          => currentState' = IF now' - stateStartTime > maxFreefallWindow
                             THEN "MONITORING" ELSE "POTENTIAL_FALL"]_vars
  /\ [][(/\ currentState = "POTENTIAL_FALL"
         /\ fallTicks' # fallTicks
         /\ now' - stateStartTime >= minFreefallDuration
         /\ episode'.acc > impactThreshold)
          => (currentState' = "IMPACT_DETECTED" /\ stateStartTime' = now')]_vars

\* an impact sampled long after the window had expired was kept
C28_Witness ==
  /\ currentState = "IMPACT_DETECTED"
  /\ episode.samples = 1
  /\ stateStartTime = now
  /\ now > fallResetTime

\* C29: the tick after IMPACT_DETECTED was entered leaves it, for
\* FALL_CONFIRMED if the acceleration pattern is valid (and, were
\* requireOrientationChange set, the orientation had changed), for
\* MONITORING otherwise; the same fall is confirmed with the device level
\* and with the device tipped over.
C29_ImpactJudgedInOneTick ==
  /\ [][(currentState = "IMPACT_DETECTED" /\ fallTicks' # fallTicks)
          => currentState' =
               IF /\ accelerationPatternValid(accelerationIntegral,
                                              now' - stateStartTime,
                                              peakAcceleration', minAcceleration')
                  /\ (requireOrientationChange
                        => significantOrientationChange(orientation'))
               THEN "FALL_CONFIRMED" ELSE "MONITORING"]_vars
  /\ []((scenario.name = "Tilt" /\ scenario.rest = <<>>)
          => currentState = "FALL_CONFIRMED")

\* a fall was confirmed although pitch and roll stayed on the baseline
C29_Witness ==
  /\ scenario.name = "Tilt" /\ scenario.rest = <<>>
  /\ currentState = "FALL_CONFIRMED"
  /\ currentFallEvent.timestamp = now
  /\ ~significantOrientationChange(orientation)

\* C30: the tick that judges an impact confirms the fall exactly when the
\* sum of the magnitudes sampled since POTENTIAL_FALL was entered, divided
\* by the number of those samples, is above 3.0 m/s^2 and the spread of
\* the episode is above 10.0 m/s^2.
C30_AverageOverEpisode ==
  [][(currentState = "IMPACT_DETECTED" /\ fallTicks' # fallTicks)
      => (currentState' = "FALL_CONFIRMED"
            <=> /\ accelerationIntegral > 30 * episode.samples
                /\ peakAcceleration' - minAcceleration' > 100)]_vars

\* C22: the orientation baseline changes only in the step in which the
\* starting fall task calibrates, before its first tick; the first tick
\* follows a calibration, and no tick and no other task changes the
\* baseline afterwards.
C22_BaselineWrittenOnce ==
  /\ [][Baseline(orientation') # Baseline(orientation)
          => /\ fallTask.state = "starting" /\ fallTicks = 0
             /\ fallTask'.state = "calibrated" /\ fallTicks' = 0]_vars
  /\ [][fallTicks' # fallTicks
          => /\ fallTask.state \in {"calibrated", "running"}
             /\ Baseline(orientation') = Baseline(orientation)]_vars

\* calibrated at 10 degrees; the ticks since have moved the filtered pitch
\* away from the baseline
C22_Witness ==
  /\ fallTicks = MaxCalibratedTicks
  /\ orientation.baselinePitch = 100
  /\ orientation.pitch > orientation.baselinePitch + orientationChangeThreshold

\* C23: in both sampling loops the k-th deadline is k periods after the
\* start, whatever the earlier iterations waited for; no iteration is
\* released before its deadline, and an iteration whose predecessor has
\* stopped waiting by the deadline is released exactly on it.
C23_FixedDeadlines ==
  /\ [](\A t \in {"ecg", "fall"} :
          /\ wake[t].xLastWakeTime = wake[t].calls * xFrequency(t)
          /\ wake[t].released >= wake[t].xLastWakeTime)
  /\ [][\A t \in {"ecg", "fall"} :
          (wake'[t].calls # wake[t].calls
             /\ wake[t].busyUntil <= wake'[t].xLastWakeTime)
            => wake'[t].released = wake'[t].xLastWakeTime]_vars

\* both loops have waited for displayMutex (the fall is confirmed but not
\* published, the reading of t = 1000 ms was skipped) and have been
\* released on their deadlines again
C23_Witness ==
  /\ currentState = "FALL_CONFIRMED" /\ ~fallDetectionUpdated
  /\ currentEcgData.timestamp = 0
  /\ wake.ecg.calls * SAMPLE_INTERVAL_MS > MQTT_PUBLISH_INTERVAL_MS + TakeTimeout
  /\ wake.ecg.released = wake.ecg.xLastWakeTime
  /\ wake.fall.released = wake.fall.xLastWakeTime
  /\ wake.fall.calls > 20

\* C24: once both sampling loops run, the fall task has a priority above
\* every other task, the ECG task a priority above every task but the fall
\* task, and the tasks that read the cells a priority below both.
C24_PriorityOrder ==
  (wake.fall.calls > 0 /\ wake.ecg.calls > 0)
    => /\ \A t \in DOMAIN uxPriority \ {"FallDetection"} :
            uxPriority.FallDetection > uxPriority[t]
       /\ \A t \in DOMAIN uxPriority \ {"FallDetection", "ECG"} :
            uxPriority.ECG > uxPriority[t]
       /\ \A t \in BusConsumers :
            /\ uxPriority[t] < uxPriority.ECG
            /\ uxPriority[t] < uxPriority.FallDetection

(***************************************************************************)
(* The raw-sample ring: properties                                         *)
(***************************************************************************)

\* C25: for every position i of the ring, the read index lies in the ring
\* and, when more than i samples have been stored, addresses the (i+1)-th
\* most recent of them: with the ramp as input, the sample numbered
\* Written - i.
C25_ReadIndexAddressesRecent ==
  \A i \in 0..(ECG_BUFFER_SIZE - 1) :
    /\ ReadIndex(ecg.bufferIndex, i) \in 0..(ECG_BUFFER_SIZE - 1)
    /\ i < Written => ecg.ecgBuffer[ReadIndex(ecg.bufferIndex, i)] = Written - i

\* the write index has just wrapped: the newest sample is in the last slot,
\* the oldest readable one in slot 0
C25_Witness ==
  /\ Written = ECG_BUFFER_SIZE
  /\ ecg.bufferIndex = 0
  /\ ReadIndex(ecg.bufferIndex, 0) = ECG_BUFFER_SIZE - 1
  /\ ecg.ecgBuffer[ReadIndex(ecg.bufferIndex, ECG_BUFFER_SIZE - 1)] = 1

\* C26: the samples copied so far by the MQTT task are consecutive samples
\* of the stream, newest first.
C26_WindowIsConsecutive ==
  \A j \in 1..(Len(mqtt.samples) - 1) :
    mqtt.samples[j + 1] = mqtt.samples[j] - 1

C31_BeatOnlyIfWidthInRange ==
  [][ecg'.lastPeakTime # ecg.lastPeakTime
       => /\ ecg.inQRS
          /\ now' - ecg.qrsStartTime >= QRS_MIN_WIDTH
          /\ now' - ecg.qrsStartTime <= QRS_MAX_WIDTH]_vars

\* C31, amended: a complex is counted as a beat only if its width at exit
\* lies in [QRS_MIN_WIDTH, QRS_MAX_WIDTH] or the exit happens less than
\* StartupTime after start-up; from StartupTime on, a complex left because
\* the maximum width was exceeded is never counted.
C31_BeatOnlyIfWidthInRangeAfterStartup ==
  [][ecg'.lastPeakTime # ecg.lastPeakTime
       => /\ ecg.inQRS
          /\ \/ now' < StartupTime
             \/ /\ now' - ecg.qrsStartTime >= QRS_MIN_WIDTH
                /\ now' - ecg.qrsStartTime <= QRS_MAX_WIDTH]_vars

\* after StartupTime a complex was left over the maximum width and was not
\* counted, after a complex of the start-up phase had been counted
C31_Witness ==
  /\ now >= StartupTime
  /\ ~ecg.inQRS
  /\ now - ecg.qrsStartTime > QRS_MAX_WIDTH
  /\ now - ecg.qrsStartTime <= QRS_MAX_WIDTH + SAMPLE_INTERVAL_MS
  /\ ecg.lastPeakTime > 0
  /\ ecg.lastPeakTime < StartupTime

(***************************************************************************)
(* Heart rate from the RR ring                                             *)
(***************************************************************************)

\* C32: on the tick that accepts an RR interval, the raw rate is 60000 div
\* the integer mean of the most recently accepted intervals (at most
\* RR_BUFFER_SIZE of them, the oldest dropped first), and the heart rate
\* becomes the raw rate if it was 0 and trunc(0.8 * previous + 0.2 * raw)
\* otherwise.
C32_RateFromRecentIntervals ==
  [][Accepted(ecg, ecg')
       => LET n == Len(hist'.rr)
              mean == SumFrom(hist'.rr, 1, n + 1) \div n
              raw == 60000 \div mean
          IN ecg'.heartRate = IF ecg.heartRate = 0 THEN raw
                              ELSE (8 * ecg.heartRate + 2 * raw) \div 10]_vars

\* more intervals than the ring holds were accepted, of different lengths,
\* and the last one was smoothed into a non-zero rate
C32_Witness ==
  /\ ecg.lastHeartRateChangeTime = now
  /\ Len(hist.rr) = RR_BUFFER_SIZE
  /\ ecg.rrIndex = 1
  /\ hist.rr[1] # hist.rr[RR_BUFFER_SIZE]
  /\ ecg.rrIntervals[0] = hist.rr[RR_BUFFER_SIZE]
  /\ ecg.rrIntervals[1] # ecg.rrIntervals[0]
  /\ ecg.heartRate > 0

(***************************************************************************)
(* Baseline                                                                *)
(***************************************************************************)

\* C33: under a constant filtered input c the baseline is brought to c,
\* from above and from below: when the filtered input has stayed the same
\* and the baseline has stopped moving, the baseline is c.
C33_BaselineReachesInput ==
  [][(/\ ecg.leadsConnected
      /\ ecg'.bufferIndex # ecg.bufferIndex
      /\ FilteredValue(ecg') = FilteredValue(ecg)
      /\ ecg'.baseline = ecg.baseline)
       => ecg'.baseline = FilteredValue(ecg')]_vars

(***************************************************************************)
(* Range of the heart rate                                                 *)
(***************************************************************************)

\* C34: the heart rate of the ECG task and of every reading it has written
\* to the cell is 0 or within [40, 200], and in every such reading
\* validSignal is true exactly when heartRate > 0.
C34_RateInRangeAndValidIffPositive ==
  /\ ecg.heartRate = 0 \/ (ecg.heartRate >= 40 /\ ecg.heartRate <= 200)
  /\ \A p \in hist.published :
        /\ p[1] = 0 \/ (p[1] >= 40 /\ p[1] <= 200)
        /\ p[2] <=> (p[1] > 0)

\* a rate of 200 was published, then the rate was reset and the reading
\* published on this tick is (0, FALSE)
C34_Witness ==
  /\ <<200, TRUE>> \in hist.published
  /\ hist.wasReset
  /\ currentEcgData.timestamp = now
  /\ Pair(currentEcgData) = <<0, FALSE>>

(***************************************************************************)
(* Smoothing                                                               *)
(***************************************************************************)

\* C35: with a constant raw rate T, one smoothing step from a heart rate
\* h > 0 moves h towards T without passing it; from above it moves as long
\* as h > T, so it stops exactly at T; from below it moves as long as
\* h < T - 4, so it stops in [T - 4, T].
C35_SmoothingApproachesTarget ==
  LET T == NewHeartRate(ecg.rrIntervals)
      h == ecg.heartRate
      h1 == Smooth(h, T)
  IN h > 0 =>
       /\ h <= T => (h <= h1 /\ h1 <= T)
       /\ h >= T => (T <= h1 /\ h1 <= h)
       /\ h > T => h1 < h
       /\ h < T - 4 => h1 > h
       /\ h1 = h => (T - 4 <= h /\ h <= T)

\* after several beats the heart rate has stopped 4 BPM under the raw rate
C35_Witness ==
  /\ now > 0
  /\ ecg.lastHeartRateChangeTime = now
  /\ RRCount(ecg.rrIntervals) >= 3
  /\ ecg.heartRate = NewHeartRate(ecg.rrIntervals) - 4
  /\ Smooth(ecg.heartRate, NewHeartRate(ecg.rrIntervals)) = ecg.heartRate

(***************************************************************************)
(* Heart rate after a reset                                                *)
(***************************************************************************)

\* C36: after the heart rate has been reset to 0, the first non-zero heart
\* rate published is computed only from RR intervals measured after the
\* reset: a reading published when one interval has been accepted since
\* the reset carries the rate of that interval alone.
C36_FirstRateFromFreshIntervals ==
  (/\ hist.wasReset
   /\ Len(hist.fresh) = 1
   /\ currentEcgData.timestamp >= ecg.lastHeartRateChangeTime
   /\ currentEcgData.heartRate > 0)
    => currentEcgData.heartRate = 60000 \div hist.fresh[1]

(***************************************************************************)
(* Spread criterion                                                        *)
(***************************************************************************)

\* C38: whenever IMPACT_DETECTED is reached, peakAcceleration -
\* minAcceleration > 10.0 holds, and it still holds with the sample of the
\* tick that judges the episode; the episode is sent back to MONITORING
\* only when the average-acceleration criterion fails.
C38_SpreadNeverRejects ==
  /\ [](currentState = "IMPACT_DETECTED" => peakAcceleration - minAcceleration > 100)
  /\ [][currentState = "IMPACT_DETECTED" /\ fallTicks' # fallTicks
          => /\ peakAcceleration' - minAcceleration' > 100
             /\ currentState' = "MONITORING"
                  => ~(accelerationIntegral > 30 * (now' - stateStartTime + 1))]_vars

\* a fall was confirmed with the smallest spread the thresholds allow
C38_Witness ==
  /\ currentState = "FALL_CONFIRMED"
  /\ minAcceleration = freefallThreshold - 1
  /\ peakAcceleration = impactThreshold + 1

(***************************************************************************)
(* Locks of the producers                                                  *)
(***************************************************************************)

\* C37: when an iteration of the ECG task or of the fall-detection task
\* has ended, the task holds none of displayMutex, telegramAlertSemaphore
\* and gpsDataSemaphore: every lock it took was given back on the path it
\* followed.
C37_NoLockHeldAcrossTicks ==
  /\ holds.ecg = {}
  /\ holds.fall = {}
  /\ displayMutex \in {"free", "held"}

\* both producers have been through their lock paths: a fall was confirmed
\* and reported with the audio alert, and the ECG task has published
C37_Witness ==
  /\ currentState = "FALL_CONFIRMED"
  /\ fallDetectionUpdated
  /\ audioCommandUpdated
  /\ ecgDataUpdated
  /\ currentEcgData.timestamp > 0
  /\ holds = [t \in {"ecg", "fall"} |-> {}]
  /\ displayMutex = "free"

(***************************************************************************)
(* Audio alert of a confirmed fall                                         *)
(***************************************************************************)

\* C39: the tick that confirms a fall leaves the audio command
\* (AUDIO_FALL_DETECTED, 3 repeats) waiting for the audio task, and a
\* waiting fall alert stays in the cell until the audio task reads and
\* plays it: no medication reminder replaces it and no refused lock
\* drops it.
C39_FallAlertPlayed ==
  [][/\ (currentState = "IMPACT_DETECTED" /\ currentState' = "FALL_CONFIRMED")
          => PendingFallAlert'
     /\ (PendingFallAlert /\ ~PendingFallAlert')
          => audio'.played = Append(audio.played, <<AUDIO_FALL_DETECTED, 3>>)]_vars

====
